---- MODULE Spec2Model ----
(***************************************************************************)
(* Story processing pipeline of story_processor.py: input validation, the  *)
(* four model-driven stages (characters, scenes, narration, image          *)
(* prompts), the marker parsers with their completeness and count gates,   *)
(* and the offline fallback synthesis.                                     *)
(*                                                                         *)
(* Representation of text.  A string is a sequence of tokens; the token    *)
(* " " is whitespace, every marker of PARSING_RULES is one token.  A text  *)
(* made of lines is a sequence of such lines (the result of split('\n')).  *)
(* The story text is kept as a run-length sequence of whitespace and       *)
(* non-whitespace runs, which is what len(), strip(), [:200] and split()   *)
(* read.  A narration is kept as its origin and its word count.            *)
(***************************************************************************)
EXTENDS Integers, Sequences, FiniteSets, TLC

\* ------------------------------------------------------------------------
\* config.py
\* ------------------------------------------------------------------------
min_characters == 2
max_characters == 6
min_scenes == 4
max_scenes == 8
min_words == 900
max_words == 1200
min_story_length == 100
max_story_length == 10000
min_input_length == 100
max_retries == 3
retry_delay == 2

\* _validate_character / _validate_scene: "return len(missing_fields) <= 2"
max_missing_fields == 2
\* story_content[:200] in _create_basic_narration
narration_excerpt_length == 200
\* words of the narration template before {character_names} and after the excerpt
narration_prefix_words == 14
narration_suffix_words == 61
\* words of the placeholder "Narration generation failed."
narration_failed_words == 3

character_required_fields ==
  <<"name", "role", "personality", "appearance", "motivation",
    "emotional_traits", "description">>

scene_required_fields ==
  <<"title", "location", "emotion", "characters", "action", "description">>

\* PARSING_RULES[...]['field_markers'], in dictionary order: <<field, marker>>
character_field_markers ==
  << <<"name", "Character:">>, <<"role", "Role:">>,
     <<"personality", "Personality:">>, <<"appearance", "Appearance:">>,
     <<"motivation", "Motivation:">>,
     <<"emotional_traits", "Emotional Traits:">>,
     <<"description", "Description:">> >>

scene_field_markers ==
  << <<"title", "Scene:">>, <<"location", "Location:">>,
     <<"emotion", "Emotion:">>, <<"characters", "Characters:">>,
     <<"action", "Action:">>, <<"description", "Description:">> >>

\* FRAMEWORK_FILES keys in the order load_framework_content reads them
framework_keys ==
  <<"character_queries", "scene_queries", "narration_queries",
    "prompt_queries", "narration_template", "character_template",
    "scene_template", "visual_rules">>

\* ------------------------------------------------------------------------
\* Bounds of the explored inputs
\* ------------------------------------------------------------------------
MaxRuns == 3
MaxExtraBlocks == 1
MaxQueries == 2

\* lengths of the non-whitespace and of the whitespace runs of a story text
WordRunLengths == {98, 100, 10000}
SpaceRunLengths == {1, 9950}

\* ------------------------------------------------------------------------
\* Generic helpers
\* ------------------------------------------------------------------------
RECURSIVE SumSeq(_)
SumSeq(s) == IF s = <<>> THEN 0 ELSE Head(s) + SumSeq(Tail(s))

Prefix(s, n) == IF n >= Len(s) THEN s ELSE SubSeq(s, 1, n)

\* Python dict as a function on the set of its keys
EmptyDict == [k \in {} |-> <<>>]
HasKey(d, k) == k \in DOMAIN d
DictSet(d, k, v) == (k :> v) @@ d
\* d.get(k): the value, or None (falsy, as the empty string is)
DictGet(d, k) == IF HasKey(d, k) THEN d[k] ELSE <<>>

\* ------------------------------------------------------------------------
\* Strings as token sequences
\* ------------------------------------------------------------------------
WS == " "

RECURSIVE LStrip(_)
LStrip(s) == IF s # <<>> /\ Head(s) = WS THEN LStrip(Tail(s)) ELSE s

RECURSIVE RStrip(_)
RStrip(s) ==
  IF s # <<>> /\ s[Len(s)] = WS THEN RStrip(SubSeq(s, 1, Len(s) - 1)) ELSE s

\* str.strip()
StripStr(s) == RStrip(LStrip(s))

\* line.startswith(marker)
StartsWith(line, marker) == line # <<>> /\ Head(line) = marker

\* str.replace(tok, '')
RemoveToken(s, tok) == SelectSeq(s, LAMBDA t : t # tok)

\* strip() of a multi-line text: blank lines at both ends go, and so does
\* the whitespace around the first and the last line
RECURSIVE DropBlankHead(_)
DropBlankHead(t) ==
  IF t # <<>> /\ StripStr(Head(t)) = <<>> THEN DropBlankHead(Tail(t)) ELSE t

RECURSIVE DropBlankTail(_)
DropBlankTail(t) ==
  IF t # <<>> /\ StripStr(t[Len(t)]) = <<>>
  THEN DropBlankTail(SubSeq(t, 1, Len(t) - 1)) ELSE t

StripText(t) ==
  LET u == DropBlankTail(DropBlankHead(t)) IN
  IF u = <<>> THEN <<>>
  ELSE IF Len(u) = 1 THEN <<StripStr(u[1])>>
  ELSE <<LStrip(u[1])>> \o SubSeq(u, 2, Len(u) - 1) \o <<RStrip(u[Len(u)])>>

\* text.split('\n'): the empty string splits into one empty line
SplitLines(t) == IF t = <<>> THEN << <<>> >> ELSE t

\* ------------------------------------------------------------------------
\* The story text as runs [ws |-> is whitespace, n |-> characters]
\* ------------------------------------------------------------------------
\* len(story_content)
StoryLen(story) == SumSeq([i \in DOMAIN story |-> story[i].n])

RECURSIVE StoryLStrip(_)
StoryLStrip(story) ==
  IF story # <<>> /\ Head(story).ws THEN StoryLStrip(Tail(story)) ELSE story

RECURSIVE StoryRStrip(_)
StoryRStrip(story) ==
  IF story # <<>> /\ story[Len(story)].ws
  THEN StoryRStrip(SubSeq(story, 1, Len(story) - 1)) ELSE story

\* story_content.strip()
StoryStrip(story) == StoryRStrip(StoryLStrip(story))

\* story_content[:k]
RECURSIVE StorySlice(_, _)
StorySlice(story, k) ==
  IF story = <<>> \/ k <= 0 THEN <<>>
  ELSE IF Head(story).n >= k THEN <<[ws |-> Head(story).ws, n |-> k]>>
  ELSE <<Head(story)>> \o StorySlice(Tail(story), k - Head(story).n)

\* len(text.split()): the maximal non-whitespace stretches
StoryWords(story) ==
  Cardinality({i \in DOMAIN story :
                 /\ ~story[i].ws
                 /\ (i = 1 \/ story[i - 1].ws)})

\* ------------------------------------------------------------------------
\* EntityValidator
\* ------------------------------------------------------------------------
MissingFields(record, required_fields) ==
  {i \in DOMAIN required_fields : DictGet(record, required_fields[i]) = <<>>}

ValidateCharacter(character) ==
  LET missing_fields == MissingFields(character, character_required_fields) IN
  IF missing_fields # {}
  THEN Cardinality(missing_fields) <= max_missing_fields
  ELSE TRUE

\* Variant: a scene lacking two of its six fields is rejected
ValidateSceneStrict(scene) ==
  LET missing_fields == MissingFields(scene, scene_required_fields) IN
  IF missing_fields # {}
  THEN Cardinality(missing_fields) < max_missing_fields
  ELSE TRUE

ValidateScene(scene) ==
  LET missing_fields == MissingFields(scene, scene_required_fields) IN
  IF missing_fields # {}
  THEN Cardinality(missing_fields) <= max_missing_fields
  ELSE TRUE

\* ------------------------------------------------------------------------
\* FallbackSynthesizer
\* ------------------------------------------------------------------------
BasicCharacterList ==
  << [name |-> <<"Adventure", WS, "Hero">>,
      role |-> <<"protagonist">>,
      personality |-> <<"brave, curious, kind">>,
      appearance |-> <<"young adventurer with bright eyes and friendly smile">>,
      motivation |-> <<"to explore and discover new things">>,
      emotional_traits |-> <<"excited, courageous, hopeful">>,
      description |-> <<"The main character who goes on a wonderful adventure.">>],
     [name |-> <<"Magical", WS, "Friend">>,
      role |-> <<"supporting">>,
      personality |-> <<"helpful, magical, wise">>,
      appearance |-> <<"sparkling magical creature with gentle features">>,
      motivation |-> <<"to help and guide the hero">>,
      emotional_traits |-> <<"caring, patient, encouraging">>,
      description |-> <<"A magical friend who helps on the adventure.">>] >>

ExtractBasicCharacters == Prefix(BasicCharacterList, max_characters)

\* ', '.join([char['name'] for char in characters[:2]])
RECURSIVE JoinNames(_)
JoinNames(characters) ==
  IF characters = <<>> THEN <<>>
  ELSE IF Len(characters) = 1 THEN characters[1].name
  ELSE characters[1].name \o <<",", WS>> \o JoinNames(Tail(characters))

CharacterNames(characters) == JoinNames(Prefix(characters, 2))

BasicScene(title, location, emotion, names, action, description) ==
  [title |-> <<title>>, location |-> <<location>>, emotion |-> <<emotion>>,
   characters |-> names, action |-> <<action>>, description |-> <<description>>]

CreateBasicScenes(characters) ==
  LET character_names == CharacterNames(characters) IN
  Prefix(
    << BasicScene("The Beginning Adventure", "Magical Story World", "excited",
                  character_names, "Starting the wonderful journey",
                  "Where our adventure begins with excitement and curiosity."),
       BasicScene("Discovering New Places", "Enchanted Forest", "curious",
                  character_names, "Exploring magical surroundings",
                  "Discovering amazing new places and making wonderful finds."),
       BasicScene("Facing Challenges", "Mysterious Path", "brave",
                  character_names, "Overcoming obstacles together",
                  "Working together to solve problems and face challenges."),
       BasicScene("Happy Celebration", "Beautiful Meadow", "joyful",
                  character_names, "Celebrating success",
                  "A wonderful celebration of friendship and accomplishment.") >>,
    max_scenes)

\* len(s.split()) of a token string: the maximal non-whitespace stretches
StrWords(s) ==
  Cardinality({i \in DOMAIN s : s[i] # WS /\ (i = 1 \/ s[i - 1] = WS)})

\* _create_basic_narration: the words of the template, of
\* "{character_names}." and of the first 200 characters of the story
\* followed by "..."
CreateBasicNarration(story, characters, scenes) ==
  LET character_names == CharacterNames(characters)
      excerpt == StorySlice(story, narration_excerpt_length) \o
                   <<[ws |-> FALSE, n |-> 3]>>
  IN [kind |-> "basic",
      text |-> <<>>,
      words |-> narration_prefix_words + StrWords(character_names \o <<".">>)
                  + StoryWords(excerpt) + narration_suffix_words]

CreateBasicImagePrompts(scenes) ==
  [i \in DOMAIN scenes |->
     [scene |-> scenes[i].title,
      prompt |-> <<"Children's storybook illustration of ">> \o scenes[i].title
                   \o <<", ">> \o scenes[i].description
                   \o <<", magical storybook style, warm lighting, soft pastel colors, detailed environments, 16:9 aspect ratio, child-friendly">>]]

\* ------------------------------------------------------------------------
\* BlockParser
\* ------------------------------------------------------------------------
\* Variant: the marker stays in the value of the field
ApplyMarkersKeepsMarker(current, line, markers) ==
  LET matching == {i \in DOMAIN markers : StartsWith(line, markers[i][2])} IN
  IF matching = {} THEN current
  ELSE LET first == CHOOSE i \in matching : \A j \in matching : i <= j
       IN DictSet(current, markers[first][1], StripStr(line))

\* "for field, marker in field_markers.items(): if line.startswith(marker):
\*  current[field] = line[len(marker):].strip(); break"
ApplyMarkers(current, line, markers) ==
  LET matching == {i \in DOMAIN markers : StartsWith(line, markers[i][2])} IN
  IF matching = {} THEN current
  ELSE LET first == CHOOSE i \in matching : \A j \in matching : i <= j
       IN DictSet(current, markers[first][1], StripStr(Tail(line)))

\* Variant: the start marker closes a record that has a name and opens the
\* next one
CharacterStepStartMarkerOpens(st, lines) ==
  LET line == StripStr(lines[st.i]) IN
  IF line = <<>>
  THEN IF st.current_character # EmptyDict
       THEN [i |-> st.i + 1,
             characters |->
               IF ValidateCharacter(st.current_character)
               THEN Append(st.characters, st.current_character)
               ELSE st.characters,
             current_character |-> EmptyDict]
       ELSE [st EXCEPT !.i = @ + 1]
  ELSE IF StartsWith(line, character_field_markers[1][2])
            /\ HasKey(st.current_character, "name")
  THEN [i |-> st.i + 1,
        characters |->
          IF ValidateCharacter(st.current_character)
          THEN Append(st.characters, st.current_character)
          ELSE st.characters,
        current_character |->
          ApplyMarkers(EmptyDict, line, character_field_markers)]
  ELSE [st EXCEPT !.i = @ + 1,
                  !.current_character =
                    ApplyMarkers(@, line, character_field_markers)]

\* Variant: a blank line submits the open record and leaves it open
CharacterStepKeepsOpen(st, lines) ==
  LET line == StripStr(lines[st.i]) IN
  IF line = <<>>
  THEN IF st.current_character # EmptyDict
       THEN [i |-> st.i + 1,
             characters |->
               IF ValidateCharacter(st.current_character)
               THEN Append(st.characters, st.current_character)
               ELSE st.characters,
             current_character |-> st.current_character]
       ELSE [st EXCEPT !.i = @ + 1]
  ELSE [st EXCEPT !.i = @ + 1,
                  !.current_character =
                    ApplyMarkers(@, line, character_field_markers)]

\* One pass of the body of the "for line in lines" loop of _parse_characters
\* on the loop state st = [i, characters, current_character]; i is the
\* position of the iteration in lines
CharacterStep(st, lines) ==
  LET line == StripStr(lines[st.i]) IN
  IF line = <<>>
  THEN IF st.current_character # EmptyDict
       THEN [i |-> st.i + 1,
             characters |->
               IF ValidateCharacter(st.current_character)
               THEN Append(st.characters, st.current_character)
               ELSE st.characters,
             current_character |-> EmptyDict]
       ELSE [st EXCEPT !.i = @ + 1]
  ELSE [st EXCEPT !.i = @ + 1,
                  !.current_character =
                    ApplyMarkers(@, line, character_field_markers)]

\* "for line in lines": the passes for lines[st.i..hi] in order, those up to
\* the middle line first and then the others
RECURSIVE CharacterLoop(_, _, _)
CharacterLoop(lines, hi, st) ==
  IF st.i > hi THEN st
  ELSE IF st.i = hi THEN CharacterStep(st, lines)
  ELSE CharacterLoop(lines, hi, CharacterLoop(lines, (st.i + hi) \div 2, st))

\* Variant: a record equal to an earlier one is left out
ParsedCharactersDeduplicates(analysis_text) ==
  LET lines == SplitLines(analysis_text)
      st == CharacterLoop(lines, Len(lines), [i |-> 1, characters |-> <<>>,
                                  current_character |-> EmptyDict])
      all == IF st.current_character # EmptyDict
                  /\ ValidateCharacter(st.current_character)
             THEN Append(st.characters, st.current_character)
             ELSE st.characters
      kept == {i \in DOMAIN all : \A j \in 1..(i - 1) : all[j] # all[i]}
  IN [k \in 1..Cardinality(kept) |->
        all[CHOOSE i \in kept : Cardinality({j \in kept : j < i}) = k - 1]]

\* The loop, then "Add final character if exists"
ParsedCharacters(analysis_text) ==
  LET lines == SplitLines(analysis_text)
      st == CharacterLoop(lines, Len(lines), [i |-> 1, characters |-> <<>>,
                                  current_character |-> EmptyDict])
  IN IF st.current_character # EmptyDict
          /\ ValidateCharacter(st.current_character)
     THEN Append(st.characters, st.current_character)
     ELSE st.characters

\* The count gates of _parse_characters
CharacterLimits(characters) ==
  LET truncated == Prefix(characters, max_characters) IN
  IF Len(truncated) < min_characters THEN ExtractBasicCharacters
  ELSE truncated

ParseCharacters(analysis_text) ==
  CharacterLimits(ParsedCharacters(analysis_text))

\* Variant: a line that starts with no marker continues the description of
\* the open scene, as the lines of an image prompt do
SceneStepAppendsUnmarked(st, lines) ==
  LET line == StripStr(lines[st.i]) IN
  IF line = <<>>
  THEN IF st.current_scene # EmptyDict
       THEN [i |-> st.i + 1,
             scenes |->
               IF ValidateScene(st.current_scene)
               THEN Append(st.scenes, st.current_scene)
               ELSE st.scenes,
             current_scene |-> EmptyDict]
       ELSE [st EXCEPT !.i = @ + 1]
  ELSE IF \E k \in DOMAIN scene_field_markers :
             StartsWith(line, scene_field_markers[k][2])
  THEN [st EXCEPT !.i = @ + 1,
                  !.current_scene =
                    ApplyMarkers(@, line, scene_field_markers)]
  ELSE IF st.current_scene # EmptyDict
  THEN [st EXCEPT !.i = @ + 1,
                  !.current_scene =
                    DictSet(@, "description",
                            DictGet(@, "description") \o line \o <<WS>>)]
  ELSE [st EXCEPT !.i = @ + 1]

\* One pass of the body of the "for line in lines" loop of _parse_scenes on
\* the loop state st = [i, scenes, current_scene]
SceneStep(st, lines) ==
  LET line == StripStr(lines[st.i]) IN
  IF line = <<>>
  THEN IF st.current_scene # EmptyDict
       THEN [i |-> st.i + 1,
             scenes |->
               IF ValidateScene(st.current_scene)
               THEN Append(st.scenes, st.current_scene)
               ELSE st.scenes,
             current_scene |-> EmptyDict]
       ELSE [st EXCEPT !.i = @ + 1]
  ELSE [st EXCEPT !.i = @ + 1,
                  !.current_scene =
                    ApplyMarkers(@, line, scene_field_markers)]

RECURSIVE SceneLoop(_, _, _)
SceneLoop(lines, hi, st) ==
  IF st.i > hi THEN st
  ELSE IF st.i = hi THEN SceneStep(st, lines)
  ELSE SceneLoop(lines, hi, SceneLoop(lines, (st.i + hi) \div 2, st))

\* The loop, then "Add final scene if exists"
ParsedScenes(analysis_text) ==
  LET lines == SplitLines(analysis_text)
      st == SceneLoop(lines, Len(lines), [i |-> 1, scenes |-> <<>>,
                              current_scene |-> EmptyDict])
  IN IF st.current_scene # EmptyDict /\ ValidateScene(st.current_scene)
     THEN Append(st.scenes, st.current_scene)
     ELSE st.scenes

\* Variant: the last max_scenes records are kept
SceneLimitsKeepsLast(scenes) ==
  LET truncated == IF Len(scenes) > max_scenes
                   THEN SubSeq(scenes, Len(scenes) - max_scenes + 1, Len(scenes))
                   ELSE scenes
  IN IF Len(truncated) < min_scenes THEN CreateBasicScenes(<<>>)
     ELSE truncated

\* The count gates of _parse_scenes: the fallback is built from no characters
SceneLimits(scenes) ==
  LET truncated == Prefix(scenes, max_scenes) IN
  IF Len(truncated) < min_scenes THEN CreateBasicScenes(<<>>)
  ELSE truncated

ParseScenes(analysis_text) == SceneLimits(ParsedScenes(analysis_text))

PromptMarker == "Prompt for"

\* Variant: a blank line closes the open prompt, as it closes a character
PromptStepBlankCloses(st, lines) ==
  LET line == StripStr(lines[st.i]) IN
  IF StartsWith(line, PromptMarker)
  THEN [i |-> st.i + 1,
        prompts |-> IF st.has_prompt
                    THEN Append(st.prompts, st.current_prompt)
                    ELSE st.prompts,
        has_prompt |-> TRUE,
        current_prompt |->
          [scene |-> StripStr(RemoveToken(RemoveToken(line, PromptMarker), ":")),
           prompt |-> <<>>]]
  ELSE IF st.has_prompt /\ line # <<>>
  THEN [st EXCEPT !.i = @ + 1,
                  !.current_prompt.prompt = @ \o line \o <<WS>>]
  ELSE IF st.has_prompt
  THEN [i |-> st.i + 1,
        prompts |-> Append(st.prompts, st.current_prompt),
        has_prompt |-> FALSE,
        current_prompt |-> [scene |-> <<>>, prompt |-> <<>>]]
  ELSE [st EXCEPT !.i = @ + 1]

\* One pass of the body of the loop of _parse_image_prompts on the loop state
\* st = [i, prompts, has_prompt, current_prompt]; has_prompt is
\* "current_prompt is not {}"
PromptStep(st, lines) ==
  LET line == StripStr(lines[st.i]) IN
  IF StartsWith(line, PromptMarker)
  THEN [i |-> st.i + 1,
        prompts |-> IF st.has_prompt
                    THEN Append(st.prompts, st.current_prompt)
                    ELSE st.prompts,
        has_prompt |-> TRUE,
        current_prompt |->
          [scene |-> StripStr(RemoveToken(RemoveToken(line, PromptMarker), ":")),
           prompt |-> <<>>]]
  ELSE IF st.has_prompt /\ line # <<>>
  THEN [st EXCEPT !.i = @ + 1,
                  !.current_prompt.prompt = @ \o line \o <<WS>>]
  ELSE [st EXCEPT !.i = @ + 1]

RECURSIVE PromptLoop(_, _, _)
PromptLoop(lines, hi, st) ==
  IF st.i > hi THEN st
  ELSE IF st.i = hi THEN PromptStep(st, lines)
  ELSE PromptLoop(lines, hi, PromptLoop(lines, (st.i + hi) \div 2, st))

\* The loop, then "if current_prompt: prompts.append(current_prompt)"
ParsedImagePrompts(analysis_text) ==
  LET lines == SplitLines(analysis_text)
      st == PromptLoop(lines, Len(lines),
                       [i |-> 1, prompts |-> <<>>, has_prompt |-> FALSE,
                        current_prompt |-> [scene |-> <<>>, prompt |-> <<>>]])
  IN IF st.has_prompt THEN Append(st.prompts, st.current_prompt)
     ELSE st.prompts

\* scene.get('title', default)
SceneTitleOr(scene, default) ==
  IF HasKey(scene, "title") THEN scene.title ELSE default

DefaultPrompt(scene, i) ==
  [scene |-> SceneTitleOr(scene, <<"Scene ", ToString(i)>>),
   prompt |-> <<"Children's storybook illustration of ">>
                \o SceneTitleOr(scene, <<"story scene">>)
                \o <<", magical, colorful, warm lighting, storybook style">>]

\* Variant: the prompts past the number of scenes are dropped
EnsurePromptPerSceneTruncates(prompts, scenes) ==
  IF Len(prompts) < Len(scenes)
  THEN prompts \o [k \in 1..(Len(scenes) - Len(prompts)) |->
                     DefaultPrompt(scenes[Len(prompts) + k], Len(prompts) + k)]
  ELSE Prefix(prompts, Len(scenes))

\* Variant: the default prompts are made for the first scenes
EnsurePromptPerSceneFromStart(prompts, scenes) ==
  IF Len(prompts) < Len(scenes)
  THEN prompts \o [k \in 1..(Len(scenes) - Len(prompts)) |->
                     DefaultPrompt(scenes[k], k)]
  ELSE prompts

\* "Ensure one prompt per scene": scenes at positions past the parsed
\* prompts get a default prompt, and only when fewer prompts than scenes
EnsurePromptPerScene(prompts, scenes) ==
  IF Len(prompts) < Len(scenes)
  THEN prompts \o [k \in 1..(Len(scenes) - Len(prompts)) |->
                     DefaultPrompt(scenes[Len(prompts) + k], Len(prompts) + k)]
  ELSE prompts

ParseImagePrompts(analysis_text, scenes) ==
  EnsurePromptPerScene(ParsedImagePrompts(analysis_text), scenes)

\* Variant: the name is read with a default, as the role is
CharacterSummaryNeverRaises(characters) == FALSE

\* _format_character_summary / _format_scene_summary and the dictionary
\* comprehension of stage 4 index char['name'] / scene['title']: KeyError
\* when a record has no such key
CharacterSummaryRaises(characters) ==
  \E i \in DOMAIN characters : ~HasKey(characters[i], "name")

SceneSummaryRaises(scenes) ==
  \E i \in DOMAIN scenes : ~HasKey(scenes[i], "title")

\* ------------------------------------------------------------------------
\* ModelClient (NiftyAIAnalyzer)
\* ------------------------------------------------------------------------
\* The attempt loop of analyze_with_retry.  outcomes[a + 1] is what attempt a
\* (counted from 0) of the service call does: ok with a content, or an
\* exception.  result is <<>> for None and <<text>> for a returned text.
\* Variant: the wait is made after the last failed attempt too
RECURSIVE RetryLoopSleepsAfterLast(_, _, _)
RetryLoopSleepsAfterLast(outcomes, attempt, slept) ==
  IF attempt >= max_retries
  THEN [result |-> <<>>, attempts |-> attempt, slept |-> slept]
  ELSE IF outcomes[attempt + 1].ok
  THEN [result |-> <<StripText(outcomes[attempt + 1].content)>>,
        attempts |-> attempt + 1, slept |-> slept]
  ELSE RetryLoopSleepsAfterLast(outcomes, attempt + 1,
                                Append(slept, retry_delay * (2 ^ attempt)))

RECURSIVE RetryLoop(_, _, _)
RetryLoop(outcomes, attempt, slept) ==
  IF attempt >= max_retries
  THEN [result |-> <<>>, attempts |-> attempt, slept |-> slept]
  ELSE IF outcomes[attempt + 1].ok
  THEN [result |-> <<StripText(outcomes[attempt + 1].content)>>,
        attempts |-> attempt + 1, slept |-> slept]
  ELSE IF attempt < max_retries - 1
  THEN RetryLoop(outcomes, attempt + 1,
                 Append(slept, retry_delay * (2 ^ attempt)))
  ELSE [result |-> <<>>, attempts |-> attempt + 1, slept |-> slept]

\* Variant: one attempt and no retry
AnalyzeWithRetrySingleAttempt(available, outcomes) ==
  IF available /\ outcomes[1].ok
  THEN [result |-> <<StripText(outcomes[1].content)>>, attempts |-> 1,
        slept |-> <<>>]
  ELSE [result |-> <<>>, attempts |-> IF available THEN 1 ELSE 0,
        slept |-> <<>>]

AnalyzeWithRetry(available, outcomes) ==
  IF ~available
  THEN [result |-> <<>>, attempts |-> 0, slept |-> <<>>]
  ELSE RetryLoop(outcomes, 0, <<>>)

\* "x if analysis else []": None and the empty string are both falsy
Truthy(result) == result # <<>> /\ result[1] # <<>>

\* ------------------------------------------------------------------------
\* Behaviours of the model service explored
\* ------------------------------------------------------------------------
Value(i) == <<"v" \o ToString(i)>>

MarkerLine(marker, value) ==
  IF value = <<>> THEN <<marker>> ELSE <<marker, WS>> \o value

\* One record written in the marker format.  fields: the positions of
\* markers written; empty: the positions written with no value.
Block(markers, fields, empty, i) ==
  LET written == SelectSeq([k \in DOMAIN markers |-> k],
                           LAMBDA k : k \in fields)
  IN [j \in DOMAIN written |->
        MarkerLine(markers[written[j]][2],
                   IF written[j] \in empty THEN <<>> ELSE Value(i))]

BlockKinds == {"full", "no_first", "empty_first", "sparse"}

KindBlock(markers, kind, i) ==
  CASE kind = "full" -> Block(markers, DOMAIN markers, {}, i)
    [] kind = "no_first" -> Block(markers, (DOMAIN markers) \ {1}, {}, i)
    [] kind = "empty_first" -> Block(markers, DOMAIN markers, {1}, i)
    [] kind = "sparse" ->
         Block(markers, 1..(Len(markers) - max_missing_fields - 1), {}, i)

\* Blocks with one blank line between them
RECURSIVE JoinBlocks(_)
JoinBlocks(blocks) ==
  IF blocks = <<>> THEN <<>>
  ELSE IF Len(blocks) = 1 THEN blocks[1]
  ELSE blocks[1] \o << <<>> >> \o JoinBlocks(Tail(blocks))

\* n records of one kind, then possibly a record with too few fields
RecordText(markers, kind, n, trailing_sparse) ==
  JoinBlocks([i \in 1..n |-> KindBlock(markers, kind, i)]
             \o (IF trailing_sparse
                 THEN <<KindBlock(markers, "sparse", n + 1)>> ELSE <<>>))

\* Numbers of records around the two count gates
BlockCounts(min, max) ==
  {0, min - 1, min, min + 1} \cup (max..(max + MaxExtraBlocks))

CharacterReplies ==
  {RecordText(character_field_markers, kind, n, sparse) :
     kind \in BlockKinds, n \in BlockCounts(min_characters, max_characters),
     sparse \in BOOLEAN}

SceneReplies ==
  {RecordText(scene_field_markers, kind, n, sparse) :
     kind \in BlockKinds, n \in BlockCounts(min_scenes, max_scenes),
     sparse \in BOOLEAN}

\* A token standing for a stretch of words of a narration
BulkWords == ("<898 words>" :> 898) @@ ("<300 words>" :> 300)

TokenWords(token) ==
  IF token \in DOMAIN BulkWords THEN BulkWords[token] ELSE 1

\* len(narration.split()) of a text
LineWords(line) ==
  SumSeq([i \in DOMAIN line |->
            IF line[i] # WS /\ (i = 1 \/ line[i - 1] = WS)
            THEN TokenWords(line[i]) ELSE 0])

TextWords(text) == SumSeq([i \in DOMAIN text |-> LineWords(text[i])])

NarrationReplies ==
  { <<>>,
    << <<WS>> >>,
    << <<"<898 words>", WS, "end">> >>,
    << <<"<898 words>", WS, "the", WS, "end">> >>,
    << <<"<898 words>", WS, "<300 words>", WS, "the", WS, "very", WS, "end">> >> }

PromptBlock(i) ==
  << <<PromptMarker, WS>> \o Value(i) \o <<":">>,
     <<"Children's storybook illustration", WS, "p" \o ToString(i)>> >>

PromptText(intro, n) ==
  (IF intro THEN << <<"Here", WS, "are", WS, "the", WS, "prompts">> >>
   ELSE <<>>)
  \o JoinBlocks([i \in 1..n |-> PromptBlock(i)])

PromptReplies ==
  {PromptText(intro, n) :
     intro \in BOOLEAN, n \in BlockCounts(min_scenes, max_scenes)}

\* What the max_retries attempts of one call do: the first `failing` raise,
\* the others return `content`
Outcomes(failing, content) ==
  [a \in 1..max_retries |->
     IF a <= failing THEN [ok |-> FALSE, content |-> <<>>]
     ELSE [ok |-> TRUE, content |-> content]]

\* Story texts: alternating whitespace and non-whitespace runs
Runs ==
  [ws : {TRUE}, n : SpaceRunLengths] \cup [ws : {FALSE}, n : WordRunLengths]

Stories ==
  {s \in UNION {[1..k -> Runs] : k \in 0..MaxRuns} :
     \A i \in 1..(Len(s) - 1) : s[i].ws # s[i + 1].ws}

\* TEMPLATE_VARIABLES of the four query templates
template_variables ==
  [character_queries |-> {"story_text"},
   scene_queries |-> {"story_text", "characters"},
   narration_queries |-> {"story_text", "characters", "scenes", "visual_style"},
   prompt_queries |-> {"scenes", "characters", "visual_rules"}]

QueryKeys == DOMAIN template_variables

\* A framework text is kept as the set of the placeholders it contains
FrameworkText(key, unknown) ==
  (IF key \in QueryKeys THEN template_variables[key] ELSE {})
  \cup (IF key = unknown THEN {"unknown_placeholder"} ELSE {})

\* str.format(**kwargs) raises KeyError on a placeholder not among kwargs
FormatRaises(template, kwargs) == ~(template \subseteq kwargs)

\* ------------------------------------------------------------------------
\* StoryProcessor
\* ------------------------------------------------------------------------
\* Variant: the upper length check left out
ValidateStoryInputNoMaximum(story_content) ==
  IF story_content = <<>>
       \/ StoryLen(StoryStrip(story_content)) < min_story_length
  THEN "Story too short"
  ELSE "ok"

\* Variant: "<=" for "<" in the lower length check
ValidateStoryInputInclusive(story_content) ==
  IF story_content = <<>>
       \/ StoryLen(StoryStrip(story_content)) <= min_story_length
  THEN "Story too short"
  ELSE IF StoryLen(story_content) > max_story_length
  THEN "Story too long"
  ELSE "ok"

\* _validate_story_input: "ok", or the ValueError raised
ValidateStoryInput(story_content) ==
  IF story_content = <<>>
       \/ StoryLen(StoryStrip(story_content)) < min_story_length
  THEN "Story too short"
  ELSE IF StoryLen(story_content) > max_story_length
  THEN "Story too long"
  ELSE "ok"

ProcessingStats(chars, scns, prompts, method) ==
  [character_count |-> Len(chars),
   scene_count |-> Len(scns),
   image_prompt_count |-> Len(prompts),
   processing_method |-> method]

ProcessWithFallback(story_content) ==
  LET chars == ExtractBasicCharacters
      scns == CreateBasicScenes(chars)
      narr == CreateBasicNarration(story_content, chars, scns)
      prompts == CreateBasicImagePrompts(scns)
  IN [original_story |-> story_content,
      characters |-> chars,
      scenes |-> scns,
      narration |-> narr,
      image_prompts |-> prompts,
      processing_stats |-> ProcessingStats(chars, scns, prompts, "fallback")]

NarrationFailed ==
  [kind |-> "failed",
   text |-> << <<"Narration generation failed.">> >>,
   words |-> narration_failed_words]

\* Variant: a narration outside the word limits is replaced
NarrationOrFailedLengthGated(result) ==
  IF Truthy(result) /\ min_words <= TextWords(result[1])
       /\ TextWords(result[1]) <= max_words
  THEN [kind |-> "ai", text |-> result[1], words |-> TextWords(result[1])]
  ELSE NarrationFailed

\* "narration or 'Narration generation failed.'"
NarrationOrFailed(result) ==
  IF Truthy(result)
  THEN [kind |-> "ai", text |-> result[1], words |-> TextWords(result[1])]
  ELSE NarrationFailed

\* The dictionary _process_with_ai returns
AiResults(story_content, chars, scns, narration_result, prompts) ==
  [original_story |-> story_content,
   characters |-> chars,
   scenes |-> scns,
   narration |-> NarrationOrFailed(narration_result),
   image_prompts |-> prompts,
   processing_stats |-> ProcessingStats(chars, scns, prompts, "ai")]

\* Variant: the handler logs and re-raises, as the one of process_story does
AiExceptionHandlerReraises(story_content) ==
  [raised |-> TRUE, results |-> <<>>]

\* "except Exception: return self._process_with_fallback(...)" of
\* _process_with_ai
AiExceptionHandler(story_content) ==
  [raised |-> FALSE, results |-> <<ProcessWithFallback(story_content)>>]

\* The stage results of _process_with_ai from what analyze_with_retry returned
CharactersOf(character_analysis) ==
  IF Truthy(character_analysis) THEN ParseCharacters(character_analysis[1])
  ELSE <<>>

ScenesOf(scene_analysis) ==
  IF Truthy(scene_analysis) THEN ParseScenes(scene_analysis[1]) ELSE <<>>

ImagePromptsOf(prompt_analysis, scns) ==
  IF Truthy(prompt_analysis) THEN ParseImagePrompts(prompt_analysis[1], scns)
  ELSE <<>>

\* _apply_quality_gates: the warnings logged
QualityGateWarnings(res) ==
  (IF ~(min_characters <= Len(res.characters)
        /\ Len(res.characters) <= max_characters)
   THEN {"character count"} ELSE {})
  \cup (IF ~(min_scenes <= Len(res.scenes) /\ Len(res.scenes) <= max_scenes)
        THEN {"scene count"} ELSE {})
  \cup (IF ~(min_words <= res.narration.words
             /\ res.narration.words <= max_words)
        THEN {"narration words"} ELSE {})

VARIABLES
  pc,                 \* where process_story is
  story,              \* story_content
  is_available,       \* ai_analyzer.is_available
  framework_content,  \* the framework texts loaded so far
  characters,         \* locals of _process_with_ai
  scenes,
  narration,
  results,            \* <<>> or <<the dictionary returned>>
  outcome,            \* "running", "returned" or "raised"
  error,              \* the exception process_story raised
  warnings,           \* what _apply_quality_gates logged
  queries,            \* the stages whose query reached the model service
  no_result,          \* the latest analyze_with_retry call returned None
  client,             \* a NiftyAIAnalyzer followed on its own
  parse,              \* a parsing function applied on its own
  drive,              \* a call of GoogleDriveManager._retry_api_call
  pipeline            \* where execute_story_pipeline is, and what it did

vars == <<pc, story, is_available, framework_content, characters, scenes,
          narration, results, outcome, error, warnings, queries, no_result,
          client, parse, drive, pipeline>>

\* The variables of process_story
run_vars == <<pc, story, is_available, framework_content, characters, scenes,
              narration, results, outcome, error, warnings, queries, no_result>>

\* A variable of another specification while this one is followed
Unused == [phase |-> "unused"]

Init ==
  /\ pc = "load"
  /\ story \in Stories
  /\ is_available \in BOOLEAN
  /\ framework_content = EmptyDict
  /\ characters = <<>>
  /\ scenes = <<>>
  /\ narration = <<>>
  /\ results = <<>>
  /\ outcome = "running"
  /\ error = ""
  /\ warnings = {}
  /\ queries = <<>>
  /\ no_result = FALSE
  /\ client = Unused
  /\ parse = Unused
  /\ drive = Unused
  /\ pipeline = Unused

Raise(message) ==
  /\ pc' = "done"
  /\ outcome' = "raised"
  /\ error' = message

\* Variant: a failing read is logged and the run goes on offline
LoadFrameworkContentGoesOffline ==
  /\ pc = "load"
  /\ \E failing \in 0..Len(framework_keys), unknown \in QueryKeys \cup {"none"} :
       LET loaded == IF failing = 0 THEN Len(framework_keys) ELSE failing - 1
       IN /\ framework_content' =
               [key \in {framework_keys[i] : i \in 1..loaded} |->
                  FrameworkText(key, unknown)]
          /\ pc' = IF failing = 0 THEN "validate" ELSE "fallback"
          /\ UNCHANGED <<outcome, error>>
  /\ UNCHANGED <<client, parse, drive, pipeline>>
  /\ UNCHANGED <<story, is_available, characters, scenes, narration, results,
                 warnings, queries, no_result>>

\* load_framework_content: the eight texts are read in order; a failing read
\* raises and process_story re-raises
LoadFrameworkContent ==
  /\ pc = "load"
  /\ \E failing \in 0..Len(framework_keys), unknown \in QueryKeys \cup {"none"} :
       LET loaded == IF failing = 0 THEN Len(framework_keys) ELSE failing - 1
       IN /\ framework_content' =
               [key \in {framework_keys[i] : i \in 1..loaded} |->
                  FrameworkText(key, unknown)]
          /\ IF failing = 0
             THEN /\ pc' = "validate"
                  /\ UNCHANGED <<outcome, error>>
             ELSE Raise("Framework file not found: " \o framework_keys[failing])
  /\ UNCHANGED <<client, parse, drive, pipeline>>
  /\ UNCHANGED <<story, is_available, characters, scenes, narration, results,
                 warnings, queries, no_result>>

\* Variant: the model-driven path is taken whatever the client's availability
ValidateAndDispatchAlwaysAi ==
  /\ pc = "validate"
  /\ LET verdict == ValidateStoryInput(story) IN
     IF verdict = "ok"
     THEN /\ pc' = "characters"
          /\ UNCHANGED <<outcome, error>>
     ELSE Raise(verdict)
  /\ UNCHANGED <<client, parse, drive, pipeline>>
  /\ UNCHANGED <<story, is_available, framework_content, characters, scenes,
                 narration, results, warnings, queries, no_result>>

\* _validate_story_input, then the choice between the two paths
ValidateAndDispatch ==
  /\ pc = "validate"
  /\ LET verdict == ValidateStoryInput(story) IN
     IF verdict = "ok"
     THEN /\ pc' = IF is_available THEN "characters" ELSE "fallback"
          /\ UNCHANGED <<outcome, error>>
     ELSE Raise(verdict)
  /\ UNCHANGED <<client, parse, drive, pipeline>>
  /\ UNCHANGED <<story, is_available, framework_content, characters, scenes,
                 narration, results, warnings, queries, no_result>>

\* Variant: the handler keeps the characters the model produced before the
\* exception
AiExceptionKeepsCharacters ==
  LET handled == AiExceptionHandler(story) IN
  /\ results' = IF characters = <<>> THEN handled.results
                ELSE <<[handled.results[1] EXCEPT !.characters = characters]>>
  /\ pc' = "gates"
  /\ UNCHANGED <<outcome, error>>

\* An exception inside the try block of _process_with_ai
AiException ==
  LET handled == AiExceptionHandler(story) IN
  /\ results' = handled.results
  /\ IF handled.raised
     THEN Raise("AI processing failed")
     ELSE /\ pc' = "gates"
          /\ UNCHANGED <<outcome, error>>

\* Variant: a stage whose query gave no result issues the query once more
QueriedAgainOnNoResult(call, stage) ==
  /\ queries' = IF call.attempts = 0 THEN queries
                ELSE IF call.result = <<>> THEN queries \o <<stage, stage>>
                ELSE Append(queries, stage)
  /\ no_result' = (call.result = <<>>)

Queried(call, stage) ==
  /\ queries' = IF call.attempts > 0 THEN Append(queries, stage) ELSE queries
  /\ no_result' = (call.result = <<>>)

\* Step 1: Character Analysis
StageCharacters ==
  /\ pc = "characters"
  /\ IF FormatRaises(framework_content["character_queries"], {"story_text"})
     THEN AiException /\ UNCHANGED <<characters, queries, no_result>>
     ELSE \E failing \in 0..max_retries, reply \in CharacterReplies :
            LET call == AnalyzeWithRetry(is_available, Outcomes(failing, reply))
            IN /\ characters' = CharactersOf(call.result)
               /\ Queried(call, "characters")
               /\ pc' = "scenes"
               /\ UNCHANGED <<results, outcome, error>>
  /\ UNCHANGED <<client, parse, drive, pipeline>>
  /\ UNCHANGED <<story, is_available, framework_content, scenes, narration,
                 warnings>>

\* Step 2: Scene Analysis
StageScenes ==
  /\ pc = "scenes"
  /\ IF \/ CharacterSummaryRaises(characters)
        \/ FormatRaises(framework_content["scene_queries"],
                        {"story_text", "characters"})
     THEN AiException /\ UNCHANGED <<scenes, queries, no_result>>
     ELSE \E failing \in 0..max_retries, reply \in SceneReplies :
            LET call == AnalyzeWithRetry(is_available, Outcomes(failing, reply))
            IN /\ scenes' = ScenesOf(call.result)
               /\ Queried(call, "scenes")
               /\ pc' = "narration"
               /\ UNCHANGED <<results, outcome, error>>
  /\ UNCHANGED <<client, parse, drive, pipeline>>
  /\ UNCHANGED <<story, is_available, framework_content, characters, narration,
                 warnings>>

\* Step 3: Narration Generation
StageNarration ==
  /\ pc = "narration"
  /\ IF \/ SceneSummaryRaises(scenes)
        \/ FormatRaises(framework_content["narration_queries"],
                        {"story_text", "characters", "scenes", "visual_style"})
     THEN AiException /\ UNCHANGED <<narration, queries, no_result>>
     ELSE \E failing \in 0..max_retries, reply \in NarrationReplies :
            LET call == AnalyzeWithRetry(is_available, Outcomes(failing, reply))
            IN /\ narration' = call.result
               /\ Queried(call, "narration")
               /\ pc' = "prompts"
               /\ UNCHANGED <<results, outcome, error>>
  /\ UNCHANGED <<client, parse, drive, pipeline>>
  /\ UNCHANGED <<story, is_available, framework_content, characters, scenes,
                 warnings>>

\* Step 4: Image Prompts Generation, and the dictionary returned
StagePrompts ==
  /\ pc = "prompts"
  /\ IF \/ CharacterSummaryRaises(characters)
        \/ FormatRaises(framework_content["prompt_queries"],
                        {"scenes", "characters", "visual_rules"})
     THEN AiException /\ UNCHANGED <<queries, no_result>>
     ELSE \E failing \in 0..max_retries, reply \in PromptReplies :
            LET call == AnalyzeWithRetry(is_available, Outcomes(failing, reply))
            IN /\ results' = <<AiResults(story, characters, scenes, narration,
                                        ImagePromptsOf(call.result, scenes))>>
               /\ Queried(call, "prompts")
               /\ pc' = "gates"
               /\ UNCHANGED <<outcome, error>>
  /\ UNCHANGED <<client, parse, drive, pipeline>>
  /\ UNCHANGED <<story, is_available, framework_content, characters, scenes,
                 narration, warnings>>

\* Variant: the offline narration is not made when the narration query text
\* loaded has a placeholder of its own
FallbackProcessingReadsFramework ==
  /\ pc = "fallback"
  /\ results' =
       <<[ProcessWithFallback(story) EXCEPT
            !.narration =
               IF "unknown_placeholder" \in framework_content["narration_queries"]
               THEN NarrationFailed ELSE @]>>
  /\ pc' = "gates"
  /\ UNCHANGED <<client, parse, drive, pipeline>>
  /\ UNCHANGED <<story, is_available, framework_content, characters, scenes,
                 narration, outcome, error, warnings, queries, no_result>>

\* _process_with_fallback, chosen because the client is unavailable
FallbackProcessing ==
  /\ pc = "fallback"
  /\ results' = <<ProcessWithFallback(story)>>
  /\ pc' = "gates"
  /\ UNCHANGED <<client, parse, drive, pipeline>>
  /\ UNCHANGED <<story, is_available, framework_content, characters, scenes,
                 narration, outcome, error, warnings, queries, no_result>>

\* Variant: a count or a length out of range is a failure of the run
ApplyQualityGatesRejects ==
  /\ pc = "gates"
  /\ warnings' = QualityGateWarnings(results[1])
  /\ IF QualityGateWarnings(results[1]) = {}
     THEN /\ outcome' = "returned"
          /\ pc' = "done"
          /\ UNCHANGED <<results, error>>
     ELSE /\ results' = <<>>
          /\ Raise("Quality gate failed")
  /\ UNCHANGED <<client, parse, drive, pipeline>>
  /\ UNCHANGED <<story, is_available, framework_content, characters, scenes,
                 narration, queries, no_result>>

\* _apply_quality_gates, then "return results"
ApplyQualityGates ==
  /\ pc = "gates"
  /\ warnings' = QualityGateWarnings(results[1])
  /\ outcome' = "returned"
  /\ pc' = "done"
  /\ UNCHANGED <<client, parse, drive, pipeline>>
  /\ UNCHANGED <<story, is_available, framework_content, characters, scenes,
                 narration, results, error, queries, no_result>>

Next ==
  \/ LoadFrameworkContent
  \/ ValidateAndDispatch
  \/ StageCharacters
  \/ StageScenes
  \/ StageNarration
  \/ StagePrompts
  \/ FallbackProcessing
  \/ ApplyQualityGates

Spec == Init /\ [][Next]_vars

\* The variables of process_story while client or parse is followed
RunUnused ==
  /\ pc = "unused"
  /\ story = <<>>
  /\ is_available = FALSE
  /\ framework_content = EmptyDict
  /\ characters = <<>>
  /\ scenes = <<>>
  /\ narration = <<>>
  /\ results = <<>>
  /\ outcome = "unused"
  /\ error = ""
  /\ warnings = {}
  /\ queries = <<>>
  /\ no_result = FALSE

\* ------------------------------------------------------------------------
\* NiftyAIAnalyzer followed on its own: __init__, then queries
\* ------------------------------------------------------------------------
\* What one attempt of a query can do: a text, an empty text, a failure that
\* a retry may cure and one that no retry cures
ServiceOutcomes ==
  { [ok |-> TRUE, content |-> << <<"reply">> >>, error |-> "none"],
    [ok |-> TRUE, content |-> <<>>, error |-> "none"],
    [ok |-> FALSE, content |-> <<>>, error |-> "timeout"],
    [ok |-> FALSE, content |-> <<>>, error |-> "malformed request"] }

\* __init__ before initialize_client: client None, is_available False
NewClient ==
  [phase |-> "new", api_key |-> FALSE, is_available |-> FALSE,
   has_client |-> FALSE, probes |-> 0, queries |-> 0, contacts |-> 0,
   outcomes |-> <<>>,
   call |-> [result |-> <<>>, attempts |-> 0, slept |-> <<>>]]

\* initialize_client: no key raises before the "ping" request; any exception
\* leaves client None and is_available False
InitializedClient(c, key_configured, probe_ok) ==
  [c EXCEPT !.phase = "ready",
            !.api_key = key_configured,
            !.probes = IF key_configured THEN 1 ELSE 0,
            !.has_client = key_configured /\ probe_ok,
            !.is_available = key_configured /\ probe_ok]

\* Variant: a query of an unavailable client probes the service again
AnalyzedClientReprobes(c, outcomes) ==
  LET call == AnalyzeWithRetry(TRUE, outcomes) IN
  [c EXCEPT !.queries = @ + 1,
            !.probes = IF c.is_available THEN @ ELSE @ + 1,
            !.is_available = TRUE,
            !.has_client = TRUE,
            !.contacts = @ + call.attempts,
            !.outcomes = outcomes,
            !.call = call]

\* analyze_with_retry on the client: "if not self.is_available or not
\* self.client: return None", else the attempt loop
AnalyzedClient(c, outcomes) ==
  LET call == AnalyzeWithRetry(c.is_available /\ c.has_client, outcomes) IN
  [c EXCEPT !.queries = @ + 1,
            !.contacts = @ + call.attempts,
            !.outcomes = outcomes,
            !.call = call]

ClientInit ==
  /\ client = NewClient
  /\ parse = Unused
  /\ drive = Unused
  /\ pipeline = Unused
  /\ RunUnused

InitializeClient ==
  /\ client.phase = "new"
  /\ \E key_configured \in BOOLEAN, probe_ok \in BOOLEAN :
       client' = InitializedClient(client, key_configured, probe_ok)
  /\ UNCHANGED <<parse, drive, pipeline>>
  /\ UNCHANGED run_vars

AnalyzeCall ==
  /\ client.phase = "ready"
  /\ client.queries < MaxQueries
  /\ \E outcomes \in [1..max_retries -> ServiceOutcomes] :
       client' = AnalyzedClient(client, outcomes)
  /\ UNCHANGED <<parse, drive, pipeline>>
  /\ UNCHANGED run_vars

ClientNext ==
  \/ InitializeClient
  \/ AnalyzeCall

ClientSpec == ClientInit /\ [][ClientNext]_vars

\* ------------------------------------------------------------------------
\* The parsing functions applied on their own
\* ------------------------------------------------------------------------
\* Prompt blocks for the scenes first .. first + n - 1
PromptRange(first, n) ==
  JoinBlocks([i \in 1..n |-> PromptBlock(first + i - 1)])

RecordInputs(op, markers, min, max) ==
  {[phase |-> "input", op |-> op, kind |-> kind, n |-> n, sparse |-> sparse,
    first |-> 1, records |-> <<>>,
    text |-> RecordText(markers, kind, n, sparse),
    scenes |-> <<>>, output |-> <<>>] :
     kind \in BlockKinds, n \in BlockCounts(min, max), sparse \in BOOLEAN}

\* Other layouts of a text of n records: records with exactly
\* max_missing_fields and with one more empty or absent fields, runs of
\* blank lines around the records, lines that start with no marker, n times
\* the same block, and the blocks with no blank line between them
LayoutKinds ==
  {"two_missing", "three_missing", "wide_gaps", "noted", "same", "glued"}

\* A line that starts with no marker
UnmarkedLine(i) == <<"and", WS, "more", WS, "about", WS>> \o Value(i)

\* Three blank lines, one of them of spaces
BlankRun == << <<>>, <<WS, WS>>, <<>> >>

LayoutBlock(markers, kind, i) ==
  CASE kind = "two_missing" ->
         Block(markers, (DOMAIN markers) \ {1}, {Len(markers)}, i)
    [] kind = "three_missing" ->
         Block(markers, (DOMAIN markers) \ {1},
               {Len(markers) - 1, Len(markers)}, i)
    [] kind = "wide_gaps" -> KindBlock(markers, "full", i)
    [] kind = "noted" ->
         LET block == KindBlock(markers, "full", i)
         IN <<Head(block), UnmarkedLine(i)>> \o Tail(block)
    [] kind = "same" -> KindBlock(markers, "full", 1)
    [] kind = "glued" -> KindBlock(markers, "full", i)

\* Blocks with the lines of gap between them
RECURSIVE JoinWith(_, _)
JoinWith(blocks, gap) ==
  IF blocks = <<>> THEN <<>>
  ELSE IF Len(blocks) = 1 THEN blocks[1]
  ELSE blocks[1] \o gap \o JoinWith(Tail(blocks), gap)

LayoutText(markers, kind, n, trailing_sparse) ==
  LET blocks == [i \in 1..n |-> LayoutBlock(markers, kind, i)]
                \o (IF trailing_sparse
                    THEN <<KindBlock(markers, "sparse", n + 1)>> ELSE <<>>)
  IN CASE kind = "wide_gaps" ->
            << <<WS>>, <<>> >> \o JoinWith(blocks, BlankRun)
            \o << <<>>, <<WS>> >>
       [] kind = "noted" ->
            <<UnmarkedLine(0), UnmarkedLine(0), <<>> >>
            \o JoinWith(blocks, << <<>> >>)
       [] kind = "glued" -> JoinWith(blocks, <<>>)
       [] OTHER -> JoinWith(blocks, << <<>> >>)

LayoutInputs(op, markers, min, max) ==
  {[phase |-> "input", op |-> op, kind |-> kind, n |-> n, sparse |-> sparse,
    first |-> 1, records |-> <<>>,
    text |-> LayoutText(markers, kind, n, sparse),
    scenes |-> <<>>, output |-> <<>>] :
     kind \in LayoutKinds, n \in BlockCounts(min, max), sparse \in BOOLEAN}

\* Records to write in the marker format: complete, without the first
\* field, with an empty one, with 2 and with 3 fields missing, with a value
\* that starts with a space, and n equal records
RecordShapes ==
  {"full", "no_first", "empty_first", "two_missing", "three_missing",
   "padded", "same"}

ShapedRecord(markers, shape, i) ==
  LET last == Len(markers)
      absent == IF shape \in {"no_first", "two_missing", "three_missing"}
                THEN {1} ELSE {}
      empty == CASE shape = "empty_first" -> {1}
                 [] shape = "two_missing" -> {last}
                 [] shape = "three_missing" -> {last - 1, last}
                 [] OTHER -> {}
  IN [field \in {markers[k][1] : k \in (DOMAIN markers) \ absent} |->
        LET k == CHOOSE k \in DOMAIN markers : markers[k][1] = field IN
        IF k \in empty THEN <<>>
        ELSE IF shape = "padded" /\ k = 2 THEN <<WS>> \o Value(i)
        ELSE IF shape = "same" THEN Value(1)
        ELSE Value(i)]

RecordSequences(markers, min, max) ==
  {[i \in 1..n |-> ShapedRecord(markers, shape, i)] :
     shape \in RecordShapes, n \in BlockCounts(min, max)}

\* One record in the marker format: a line "<marker> <value>" for each field
\* the record has, in the order of the markers
SerializeRecord(record, markers) ==
  LET written == SelectSeq([k \in DOMAIN markers |-> k],
                           LAMBDA k : HasKey(record, markers[k][1]))
  IN [j \in DOMAIN written |->
        <<markers[written[j]][2], WS>> \o record[markers[written[j]][1]]]

\* The records in the marker format with the separator, a blank line,
\* between them
Serialize(records, markers) ==
  JoinWith([i \in DOMAIN records |-> SerializeRecord(records[i], markers)],
           << <<>> >>)

RoundTripInputs(op, markers, min, max) ==
  {[phase |-> "input", op |-> op, kind |-> "serialized", n |-> Len(records),
    sparse |-> FALSE, first |-> 1, records |-> records,
    text |-> Serialize(records, markers),
    scenes |-> <<>>, output |-> <<>>] :
     records \in RecordSequences(markers, min, max)}

\* Scene sequences _parse_scenes hands on, with a title and without
PromptInputs ==
  {[phase |-> "input", op |-> "prompts", kind |-> kind, n |-> n,
    sparse |-> FALSE, first |-> first, records |-> <<>>,
    text |-> PromptRange(first, n),
    scenes |-> ParseScenes(RecordText(scene_field_markers, kind, m, FALSE)),
    output |-> <<>>] :
     kind \in {"full", "no_first"}, first \in {1, 2},
     n \in BlockCounts(min_scenes, max_scenes),
     m \in {min_scenes, min_scenes + 1, max_scenes}}

\* n times the prompt block of one scene
RepeatedPromptInputs ==
  {[phase |-> "input", op |-> "prompts", kind |-> "same", n |-> n,
    sparse |-> FALSE, first |-> 1, records |-> <<>>,
    text |-> JoinBlocks([i \in 1..n |-> PromptBlock(1)]),
    scenes |-> ParseScenes(RecordText(scene_field_markers, "full", m, FALSE)),
    output |-> <<>>] :
     n \in BlockCounts(min_scenes, max_scenes),
     m \in {min_scenes, max_scenes}}

\* A prompt block with an indented marker line, a colon inside the title
\* and blank lines inside the prompt text
LoosePromptBlock(i) ==
  << <<WS, PromptMarker, WS, "Act", ":", WS>> \o Value(i) \o <<":">>,
     <<>>,
     <<"Children's storybook illustration", WS, "p" \o ToString(i)>>,
     <<WS>>,
     <<"soft", WS, "light">> >>

\* Two lines of introduction, then n such blocks
LoosePromptInputs ==
  {[phase |-> "input", op |-> "prompts", kind |-> "loose", n |-> n,
    sparse |-> FALSE, first |-> 1, records |-> <<>>,
    text |-> << <<"Here", WS, "are", WS, "the", WS, "prompts", ":">>,
                <<"as", WS, "asked">>, <<>> >>
             \o JoinBlocks([i \in 1..n |-> LoosePromptBlock(i)]),
    scenes |-> ParseScenes(RecordText(scene_field_markers, "full", m, FALSE)),
    output |-> <<>>] :
     n \in BlockCounts(min_scenes, max_scenes),
     m \in {min_scenes, max_scenes}}

ParseInputs ==
  RecordInputs("characters", character_field_markers,
               min_characters, max_characters)
  \cup RecordInputs("scenes", scene_field_markers, min_scenes, max_scenes)
  \cup LayoutInputs("characters", character_field_markers,
                    min_characters, max_characters)
  \cup LayoutInputs("scenes", scene_field_markers, min_scenes, max_scenes)
  \cup RoundTripInputs("characters", character_field_markers,
                       min_characters, max_characters)
  \cup RoundTripInputs("scenes", scene_field_markers, min_scenes, max_scenes)
  \cup PromptInputs
  \cup RepeatedPromptInputs
  \cup LoosePromptInputs

ParseInit ==
  /\ parse \in ParseInputs
  /\ client = Unused
  /\ drive = Unused
  /\ pipeline = Unused
  /\ RunUnused

ParseCharactersCall ==
  /\ parse.phase = "input"
  /\ parse.op = "characters"
  /\ parse' = [parse EXCEPT !.phase = "output",
                            !.output = ParseCharacters(parse.text)]
  /\ UNCHANGED <<client, drive, pipeline>>
  /\ UNCHANGED run_vars

ParseScenesCall ==
  /\ parse.phase = "input"
  /\ parse.op = "scenes"
  /\ parse' = [parse EXCEPT !.phase = "output",
                            !.output = ParseScenes(parse.text)]
  /\ UNCHANGED <<client, drive, pipeline>>
  /\ UNCHANGED run_vars

ParseImagePromptsCall ==
  /\ parse.phase = "input"
  /\ parse.op = "prompts"
  /\ parse' = [parse EXCEPT !.phase = "output",
                            !.output = ParseImagePrompts(parse.text,
                                                         parse.scenes)]
  /\ UNCHANGED <<client, drive, pipeline>>
  /\ UNCHANGED run_vars

ParseNext ==
  \/ ParseCharactersCall
  \/ ParseScenesCall
  \/ ParseImagePromptsCall

ParseSpec == ParseInit /\ [][ParseNext]_vars

\* ------------------------------------------------------------------------
\* GoogleDriveManager._retry_api_call followed on its own
\* ------------------------------------------------------------------------
\* The HTTP statuses the wrapper retries
retry_statuses == {500, 502, 503, 504}

\* Statuses of other HttpErrors
OtherStatuses == {400, 404, 429, 501}

\* What one call of api_call does: it returns, raises HttpError with a
\* status, or raises another exception
ApiOutcomes ==
  {[kind |-> "ok", status |-> 200], [kind |-> "other", status |-> 0]}
  \cup [kind : {"http"}, status : retry_statuses \cup OtherStatuses]

\* The wrapper at the start of its loop
RetryStart ==
  [attempt |-> 0, slept |-> <<>>, result |-> "running",
   error |-> [kind |-> "ok", status |-> 200]]

\* Variant: every HttpError is retried
RetryStepAnyHttp(st, api_outcome) ==
  IF api_outcome.kind = "ok"
  THEN [st EXCEPT !.result = "returned"]
  ELSE IF api_outcome.kind = "http" /\ st.attempt < max_retries - 1
  THEN [st EXCEPT !.attempt = @ + 1,
                  !.slept = Append(@, retry_delay * (2 ^ st.attempt))]
  ELSE [st EXCEPT !.result = "raised", !.error = api_outcome]

\* One pass of the loop of _retry_api_call, with what api_call does in it
RetryStep(st, api_outcome) ==
  IF api_outcome.kind = "ok"
  THEN [st EXCEPT !.result = "returned"]
  ELSE IF api_outcome.kind = "http"
            /\ api_outcome.status \in retry_statuses
            /\ st.attempt < max_retries - 1
  THEN [st EXCEPT !.attempt = @ + 1,
                  !.slept = Append(@, retry_delay * (2 ^ st.attempt))]
  ELSE [st EXCEPT !.result = "raised", !.error = api_outcome]

\* for attempt in range(max_retries): the loop ends at a return or a raise
RECURSIVE ApiRetryLoop(_, _)
ApiRetryLoop(st, api_outcomes) ==
  IF st.result # "running" \/ st.attempt >= max_retries
  THEN st
  ELSE ApiRetryLoop(RetryStep(st, api_outcomes[st.attempt + 1]), api_outcomes)

\* _retry_api_call(api_call): the attempts made, the waits, and the end
RetryApiCall(api_outcomes) == ApiRetryLoop(RetryStart, api_outcomes)

DriveInit ==
  /\ drive \in [phase : {"call"},
                api_outcomes : [1..max_retries -> ApiOutcomes]]
  /\ client = Unused
  /\ parse = Unused
  /\ pipeline = Unused
  /\ RunUnused

RetryApiCallReturns ==
  /\ drive.phase = "call"
  /\ drive' = [phase |-> "done",
               api_outcomes |-> drive.api_outcomes,
               call |-> RetryApiCall(drive.api_outcomes)]
  /\ UNCHANGED <<client, parse, pipeline>>
  /\ UNCHANGED run_vars

DriveNext == RetryApiCallReturns

DriveSpec == DriveInit /\ [][DriveNext]_vars

\* ------------------------------------------------------------------------
\* StoryAutomationOrchestrator.execute_story_pipeline
\* ------------------------------------------------------------------------
\* INPUT_OUTPUT_FILES: the six files generate_all_outputs makes
output_file_names ==
  <<"1-Story.txt", "2-Narration.txt", "3-Character-Sheet.txt",
    "4-Scenes.txt", "5-Image-Prompts.txt", "processing-report.txt">>

OutputFiles == {output_file_names[i] : i \in DOMAIN output_file_names}

\* The files whose write_output_file call gives an id: none, the first, all
WriteOutcomes == {{}, {output_file_names[1]}, OutputFiles}

\* The pipeline before its first step
NewPipeline ==
  [step |-> "read", folder_created |-> FALSE, files_written |-> {},
   result |-> <<>>]

\* except Exception as e: the record returned
PipelineFailed(p, message) ==
  [p EXCEPT !.step = "done",
            !.result = <<[success |-> FALSE, error |-> message]>>]

\* read_story_input: the text, or the message of the exception raised
ReadStoryInput(found, downloaded, content) ==
  IF ~found
  THEN [ok |-> FALSE, error |-> "Story input file not found: story_input.txt"]
  ELSE IF ~downloaded
  THEN [ok |-> FALSE, error |-> "download failed"]
  ELSE IF content = <<>> \/ StoryLen(StoryStrip(content)) < min_input_length
  THEN [ok |-> FALSE,
        error |-> "Story input is too short or empty (minimum 100 characters required)"]
  ELSE [ok |-> TRUE, error |-> ""]

PipelineInit ==
  /\ pipeline = NewPipeline
  /\ pc = "not_called"
  /\ story = <<>>
  /\ is_available \in BOOLEAN
  /\ framework_content = EmptyDict
  /\ characters = <<>>
  /\ scenes = <<>>
  /\ narration = <<>>
  /\ results = <<>>
  /\ outcome = "running"
  /\ error = ""
  /\ warnings = {}
  /\ queries = <<>>
  /\ no_result = FALSE
  /\ client = Unused
  /\ parse = Unused
  /\ drive = Unused

\* Step 1, and the call of process_story with the text read
ReadStory ==
  /\ pipeline.step = "read"
  /\ \E found \in BOOLEAN, downloaded \in BOOLEAN, content \in Stories :
       LET read == ReadStoryInput(found, downloaded, content) IN
       IF read.ok
       THEN /\ pipeline' = [pipeline EXCEPT !.step = "process"]
            /\ story' = content
            /\ pc' = "load"
       ELSE /\ pipeline' = PipelineFailed(pipeline, read.error)
            /\ UNCHANGED <<story, pc>>
  /\ UNCHANGED <<is_available, framework_content, characters, scenes,
                 narration, results, outcome, error, warnings, queries,
                 no_result>>
  /\ UNCHANGED <<client, parse, drive>>

\* Step 2 ends with the exception process_story raised
ProcessingRaised ==
  /\ pipeline.step = "process"
  /\ pc = "done"
  /\ outcome = "raised"
  /\ pipeline' = PipelineFailed(pipeline, error)
  /\ UNCHANGED run_vars
  /\ UNCHANGED <<client, parse, drive>>

\* Variant: the folder is created while the story is being processed
CreateOutputFolderEarly ==
  /\ pipeline.step = "process"
  /\ \E created \in {"id", "no_id", "raised"} :
       pipeline' =
         IF created = "id"
         THEN [pipeline EXCEPT !.step = "generate", !.folder_created = TRUE]
         ELSE IF created = "no_id"
         THEN PipelineFailed([pipeline EXCEPT !.folder_created = TRUE],
                             "Failed to create output folder in Google Drive")
         ELSE PipelineFailed(pipeline, "drive error")
  /\ UNCHANGED run_vars
  /\ UNCHANGED <<client, parse, drive>>

\* Step 3, after process_story returned: create_output_folder gives the id
\* of the folder made, gives no id, or raises
CreateOutputFolder ==
  /\ pipeline.step = "process"
  /\ pc = "done"
  /\ outcome = "returned"
  /\ \E created \in {"id", "no_id", "raised"} :
       pipeline' =
         IF created = "id"
         THEN [pipeline EXCEPT !.step = "generate", !.folder_created = TRUE]
         ELSE IF created = "no_id"
         THEN PipelineFailed([pipeline EXCEPT !.folder_created = TRUE],
                             "Failed to create output folder in Google Drive")
         ELSE PipelineFailed(pipeline, "drive error")
  /\ UNCHANGED run_vars
  /\ UNCHANGED <<client, parse, drive>>

\* Step 4: generate_all_outputs returns the six texts or raises
GenerateAllOutputs ==
  /\ pipeline.step = "generate"
  /\ \E generated \in BOOLEAN :
       pipeline' = IF generated
                   THEN [pipeline EXCEPT !.step = "write"]
                   ELSE PipelineFailed(pipeline, "template error")
  /\ UNCHANGED run_vars
  /\ UNCHANGED <<client, parse, drive>>

\* Step 5 and the record returned: _write_output_files counts the writes
\* that gave an id
WriteOutputFiles ==
  /\ pipeline.step = "write"
  /\ \E written \in WriteOutcomes :
       pipeline' =
         [pipeline EXCEPT
            !.step = "done",
            !.files_written = written,
            !.result = <<[success |-> TRUE,
                          files_written |-> Cardinality(written),
                          total_files |-> Len(output_file_names)]>>]
  /\ UNCHANGED run_vars
  /\ UNCHANGED <<client, parse, drive>>

PipelineNext ==
  \/ ReadStory
  \/ Next
  \/ ProcessingRaised
  \/ CreateOutputFolder
  \/ GenerateAllOutputs
  \/ WriteOutputFiles

PipelineSpec == PipelineInit /\ [][PipelineNext]_vars

\* ------------------------------------------------------------------------
\* Properties
\* ------------------------------------------------------------------------
Returned == outcome = "returned"
Result == results[1]

FrameworkLoaded ==
  DOMAIN framework_content = {framework_keys[i] : i \in DOMAIN framework_keys}

ValidationErrors == {"Story too short", "Story too long"}

\* C1: every result process_story returns has exactly as many image prompts
\* as scenes.
C1_OnePromptPerScene ==
  Returned => Len(Result.image_prompts) = Len(Result.scenes)

CharacterCountInRange(chars) ==
  min_characters <= Len(chars) /\ Len(chars) <= max_characters

SceneCountInRange(scns) == min_scenes <= Len(scns) /\ Len(scns) <= max_scenes

NarrationWordsInRange(narr) == min_words <= narr.words /\ narr.words <= max_words

\* C2: with the model client unavailable, the result returned satisfies the
\* four data-model invariants (character count, scene count, narration word
\* count, one prompt per scene).
C2_FallbackSatisfiesInvariants ==
  (Returned /\ ~is_available) =>
     /\ CharacterCountInRange(Result.characters)
     /\ SceneCountInRange(Result.scenes)
     /\ NarrationWordsInRange(Result.narration)
     /\ Len(Result.image_prompts) = Len(Result.scenes)

AfterCharacters == pc \in {"scenes", "narration", "prompts"}
AfterScenes == pc \in {"narration", "prompts"}

AcceptedCharacters(chars) ==
  /\ CharacterCountInRange(chars)
  /\ \A i \in DOMAIN chars : DictGet(chars[i], "name") # <<>>

\* C3: the character sequence the character stage hands on, and the one of a
\* returned result, has between min_characters and max_characters elements,
\* each with a non-empty name.
C3_AcceptedCharacterSequence ==
  /\ AfterCharacters => AcceptedCharacters(characters)
  /\ Returned => AcceptedCharacters(Result.characters)

\* C4: the scene sequence the scene stage hands on, and the one of a returned
\* result, has between min_scenes and max_scenes elements.
C4_AcceptedSceneSequence ==
  /\ AfterScenes => SceneCountInRange(scenes)
  /\ Returned => SceneCountInRange(Result.scenes)

\* C5: once the story text has passed length validation, process_story never
\* raises, whatever the model service does in the four stages: every step
\* leads on, and the run ends with a result returned.
C5_NoFailureAfterValidation ==
  (pc \notin {"load", "validate"} /\ FrameworkLoaded
     /\ ValidateStoryInput(story) = "ok") =>
     /\ outcome # "raised"
     /\ pc = "done" => (Returned /\ results # <<>>)
     /\ pc # "done" => ENABLED Next

\* A model-driven run returned although a stage got no result from the
\* service after its retries.
C5_Witness ==
  /\ Returned
  /\ is_available
  /\ no_result
  /\ Len(queries) = 4

\* C6: when the model call of the character stage or of the scene stage
\* returns no result, the stage's output is the fallback-synthesized
\* sequence of that stage, not an empty sequence.
C6_NoResultGivesFallback ==
  /\ (pc = "scenes" /\ no_result) => characters = ExtractBasicCharacters
  /\ (pc = "narration" /\ no_result) =>
        scenes \in {CreateBasicScenes(characters), CreateBasicScenes(<<>>)}

\* C7: a failure in stage 2, 3 or 4 leaves the output of the earlier stages
\* alone: the characters stage 1 handed on are the characters of the result,
\* and the scenes stage 2 handed on are the scenes of the result.
C7_EarlierStageOutputKept ==
  (results # <<>> /\ Len(queries) >= 1 /\ CharacterCountInRange(characters)) =>
     /\ Result.characters = characters
     /\ (Len(queries) >= 2 /\ SceneCountInRange(scenes)) =>
          Result.scenes = scenes

HasDefaultPrompt(res) ==
  \E i \in DOMAIN res.image_prompts :
     /\ i \in DOMAIN res.scenes
     /\ res.image_prompts[i] = DefaultPrompt(res.scenes[i], i)

\* C8: a result whose processing_stats say 'ai' holds no stage output made
\* by fallback or default synthesis: no fallback characters, no fallback
\* scenes, no placeholder narration, no default prompt.
C8_StatsShowDegradation ==
  (Returned /\ Result.processing_stats.processing_method = "ai") =>
     /\ Result.characters # ExtractBasicCharacters
     /\ Result.scenes # CreateBasicScenes(<<>>)
     /\ Result.narration.kind = "ai"
     /\ ~HasDefaultPrompt(Result)

OutsideLengthBounds ==
  StoryLen(story) < min_story_length \/ StoryLen(story) > max_story_length

NothingProcessed ==
  /\ queries = <<>>
  /\ results = <<>>
  /\ characters = <<>>
  /\ scenes = <<>>
  /\ narration = <<>>

\* C9 as stated: a story text shorter than min_story_length or longer than
\* max_story_length makes process_story raise an input-validation error,
\* with no model query issued and no entity produced.
C9_Original ==
  OutsideLengthBounds =>
     /\ pc \in {"load", "validate", "done"}
     /\ NothingProcessed
     /\ pc = "done" => (outcome = "raised" /\ error \in ValidationErrors)

\* C9 amended: such a story text makes process_story raise with no model
\* query issued and no entity produced; the error is the input-validation
\* error when the eight framework texts were read, and the error of the
\* failing read otherwise (the texts are read before the story is validated).
C9_Amended ==
  OutsideLengthBounds =>
     /\ pc \in {"load", "validate", "done"}
     /\ NothingProcessed
     /\ pc = "done" =>
          /\ outcome = "raised"
          /\ FrameworkLoaded <=> error \in ValidationErrors

C9_Witness ==
  /\ StoryLen(story) > max_story_length
  /\ pc = "done"
  /\ error = "Story too long"

Validated == pc \notin {"load", "validate"} /\ FrameworkLoaded

ModelDriven ==
  Returned /\ Result.processing_stats.processing_method = "ai"

\* C13: when the model call of the narration stage yields no result or an
\* empty text, the narration of the returned result is the narration the
\* fallback builds from the story text, the characters and the scenes.
C13_MissingNarrationGivesFallback ==
  (ModelDriven /\ ~Truthy(narration)) =>
     Result.narration =
       CreateBasicNarration(story, Result.characters, Result.scenes)

\* C14: a non-empty narration text got from the model is the narration of
\* the returned result whatever its word count, below min_words or above
\* max_words; the word-count check only logs a warning.
C14_NarrationKeptWhateverLength ==
  (ModelDriven /\ Truthy(narration)) =>
     /\ Result.narration.kind = "ai"
     /\ Result.narration.text = narration[1]
     /\ Result.narration.words = TextWords(narration[1])
     /\ ("narration words" \in warnings) <=>
          ~NarrationWordsInRange(Result.narration)

C14_Witness ==
  /\ ModelDriven
  /\ Truthy(narration)
  /\ Result.narration.text = narration[1]
  /\ Result.narration.words > max_words
  /\ "narration words" \in warnings

\* C19: when the model returned a text for the character stage or for the
\* scene stage and fewer records than the minimum passed the
\* field-completeness gate, the output of the stage is the fallback
\* sequence of that stage (2 characters, for the character stage) and no
\* shorter sequence.
C19_TooFewGivesFallback ==
  /\ (pc = "scenes" /\ ~no_result /\ Len(characters) < min_characters) =>
        characters = ExtractBasicCharacters
  /\ (pc = "narration" /\ ~no_result /\ Len(scenes) < min_scenes) =>
        scenes = CreateBasicScenes(<<>>)

\* ------------------------------------------------------------------------
\* Properties of the client followed on its own
\* ------------------------------------------------------------------------
ClientQueried == client.phase = "ready" /\ client.queries > 0

\* The first attempt that succeeds, 0 when none does
FirstSuccess(outcomes) ==
  LET succeeding == {a \in DOMAIN outcomes : outcomes[a].ok} IN
  IF succeeding = {} THEN 0
  ELSE CHOOSE a \in succeeding : \A b \in succeeding : a <= b

\* C15: one analyze_with_retry call makes at most max_retries attempts,
\* stops at the first attempt that succeeds and returns its text, and
\* returns no result when every attempt fails.
C15_BoundedAttempts ==
  (ClientQueried /\ client.is_available) =>
     LET first == FirstSuccess(client.outcomes) IN
     /\ client.call.attempts <= max_retries
     /\ first # 0 =>
          /\ client.call.attempts = first
          /\ client.call.result =
               <<StripText(client.outcomes[first].content)>>
     /\ first = 0 =>
          /\ client.call.attempts = max_retries
          /\ client.call.result = <<>>

C15_Witness ==
  /\ ClientQueried
  /\ client.is_available
  /\ FirstSuccess(client.outcomes) = 2
  /\ client.call.attempts = 2
  /\ client.call.result = << << <<"reply">> >> >>

\* C16: the wait after failed attempt a, counted from 0, is
\* retry_delay * 2^a seconds and no wait follows the last attempt: a call
\* whose every attempt fails sleeps 2 seconds, then 4 seconds, and gives up.
C16_BackoffWaits ==
  (ClientQueried /\ client.is_available) =>
     LET first == FirstSuccess(client.outcomes)
         failures == IF first = 0 THEN max_retries ELSE first - 1
         waits == IF failures < max_retries THEN failures
                  ELSE max_retries - 1
     IN /\ client.call.slept = [a \in 1..waits |-> retry_delay * (2 ^ (a - 1))]
        /\ first = 0 => client.call.slept = <<2, 4>>

C16_Witness ==
  /\ ClientQueried
  /\ client.is_available
  /\ FirstSuccess(client.outcomes) = 0
  /\ client.call.slept = <<2, 4>>

\* C17: a query whose first attempt fails with a failure no retry can cure
\* (a malformed request) makes that one attempt only and waits for no
\* backoff.
C17_NonRetryableNotRetried ==
  (ClientQueried /\ client.is_available
     /\ client.outcomes[1].error = "malformed request") =>
     /\ client.call.attempts = 1
     /\ client.call.slept = <<>>

\* What holds of an unavailable client after its queries: the service was
\* not contacted and the latest query returned no result
UnavailableStaysSilent ==
  (client.phase = "ready" /\ ~client.is_available) =>
     /\ client.contacts = 0
     /\ client.call.result = <<>>
     /\ client.call.attempts = 0

\* C18 as stated: the client probes the service exactly once, at
\* initialization, and a client whose probe failed returns no result to
\* every query without contacting the service.
C18_Original ==
  /\ client.phase = "ready" => client.probes = 1
  /\ UnavailableStaysSilent

\* C18 amended: the client probes the service at most once, at
\* initialization, and exactly once when an API key is configured (with no
\* key it is unavailable without a probe); an unavailable client stays
\* unavailable, is never probed again and returns no result to every query
\* without contacting the service.
C18_Amended ==
  /\ [](client.phase = "ready" =>
          client.probes = IF client.api_key THEN 1 ELSE 0)
  /\ []UnavailableStaysSilent
  /\ [][client.phase = "ready" =>
          /\ client'.is_available = client.is_available
          /\ client'.probes = client.probes]_vars

C18_Witness ==
  /\ client.phase = "ready"
  /\ client.api_key
  /\ client.probes = 1
  /\ ~client.is_available
  /\ client.queries = MaxQueries

\* ------------------------------------------------------------------------
\* Properties of the offline path and of the stage order
\* ------------------------------------------------------------------------
OfflineRun == ~is_available /\ pc # "unused"

\* What the offline path makes of a story text
OfflineCharacters == Prefix(BasicCharacterList, max_characters)
OfflineScenes == CreateBasicScenes(OfflineCharacters)

\* C23: the result of a run with the model client unavailable is a function
\* of the story text: whatever framework texts were loaded, the characters,
\* scenes and image prompts are the fixed fallback entities and the
\* narration is the one made of the story text, so that two such runs on
\* the same story text return equal results.
C23_OfflineResultFromStoryOnly ==
  (OfflineRun /\ Returned) =>
     /\ Result.original_story = story
     /\ Result.characters = OfflineCharacters
     /\ Result.scenes = OfflineScenes
     /\ Result.image_prompts = CreateBasicImagePrompts(OfflineScenes)
     /\ Result.narration =
          CreateBasicNarration(story, OfflineCharacters, OfflineScenes)
     /\ Result.processing_stats =
          ProcessingStats(OfflineCharacters, OfflineScenes,
                          CreateBasicImagePrompts(OfflineScenes), "fallback")

\* An offline run returned after a narration query text with a placeholder
\* of its own was loaded
C23_Witness ==
  /\ OfflineRun
  /\ Returned
  /\ "unknown_placeholder" \in framework_content["narration_queries"]
  /\ Len(Result.characters) = 2
  /\ Len(Result.image_prompts) = 4

\* The first framework text that was not loaded
FirstNotLoaded ==
  framework_keys[CHOOSE i \in DOMAIN framework_keys :
                   /\ ~HasKey(framework_content, framework_keys[i])
                   /\ \A j \in 1..(i - 1) :
                        HasKey(framework_content, framework_keys[j])]

\* C24: when reading one of the eight framework texts fails, process_story
\* raises the error of that read: the run is over with no result, no model
\* query was issued for any stage and no offline synthesis was done.
C24_FrameworkFailureRaises ==
  (pc \notin {"load", "unused"} /\ ~FrameworkLoaded) =>
     /\ pc = "done"
     /\ outcome = "raised"
     /\ error = "Framework file not found: " \o FirstNotLoaded
     /\ results = <<>>
     /\ queries = <<>>
     /\ characters = <<>> /\ scenes = <<>> /\ narration = <<>>
     /\ ~ENABLED Next

\* The read of the fourth framework text failed
C24_Witness ==
  /\ outcome = "raised"
  /\ error = "Framework file not found: prompt_queries"
  /\ DOMAIN framework_content =
       {"character_queries", "scene_queries", "narration_queries"}
  /\ results = <<>>

\* C25: when the model client is unavailable at the start of a run,
\* process_story issues no model query at all, and the result it returns
\* has all four stage outputs from the fallback synthesizer and the
\* processing method 'fallback'.
C25_UnavailableRunsOffline ==
  OfflineRun =>
     /\ queries = <<>>
     /\ ~no_result
     /\ pc \notin {"characters", "scenes", "narration", "prompts"}
     /\ Returned =>
          /\ Result = ProcessWithFallback(story)
          /\ Result.processing_stats.processing_method = "fallback"
          /\ Result.characters = ExtractBasicCharacters
          /\ Result.scenes = CreateBasicScenes(Result.characters)
          /\ Result.narration.kind = "basic"
          /\ Result.image_prompts = CreateBasicImagePrompts(Result.scenes)

C25_Witness ==
  /\ OfflineRun
  /\ Returned
  /\ queries = <<>>
  /\ Result.processing_stats.processing_method = "fallback"
  /\ Result.processing_stats.scene_count = 4

\* The titles of the scenes the fallback synthesizer makes
FallbackSceneTitles ==
  {CreateBasicScenes(<<>>)[k].title : k \in DOMAIN CreateBasicScenes(<<>>)}

FallbackScenes(scns) ==
  scns # <<>> /\ \A i \in DOMAIN scns :
     HasKey(scns[i], "title") /\ scns[i].title \in FallbackSceneTitles

\* Every required field of every record has a non-empty value
AllComplete(records, required_fields) ==
  \A i \in DOMAIN records : MissingFields(records[i], required_fields) = {}

\* C26: the entities of the fallback synthesizer are complete wherever it
\* is invoked: fallback characters and fallback scenes have every required
\* field non-empty, and fallback scenes, those substituted for the scene
\* stage of a model-driven run too, are the ones built from the characters
\* accepted before.
C26_FallbackEntitiesComplete ==
  /\ characters = ExtractBasicCharacters =>
       AllComplete(characters, character_required_fields)
  /\ FallbackScenes(scenes) =>
       /\ AllComplete(scenes, scene_required_fields)
       /\ scenes = CreateBasicScenes(characters)
  /\ (Returned /\ FallbackScenes(Result.scenes)) =>
       /\ AllComplete(Result.scenes, scene_required_fields)
       /\ Result.scenes = CreateBasicScenes(Result.characters)
  /\ (Returned /\ Result.characters = ExtractBasicCharacters) =>
       AllComplete(Result.characters, character_required_fields)

\* The stages of _process_with_ai in the order of its code
stage_order == <<"characters", "scenes", "narration", "prompts">>

StageIndex(stage) == CHOOSE k \in DOMAIN stage_order : stage_order[k] = stage

\* The queries issued follow the stage order, one for a stage at most, none
\* of a stage that is still to run, and one query is at most max_retries
\* attempts
QueriesInStageOrder ==
  /\ Len(queries) <= Len(stage_order)
  /\ \A i, j \in DOMAIN queries :
        i < j => StageIndex(queries[i]) < StageIndex(queries[j])
  /\ \A k \in DOMAIN stage_order :
        pc = stage_order[k] =>
           \A i \in DOMAIN queries : StageIndex(queries[i]) < k
  /\ \A failing \in 0..max_retries :
        AnalyzeWithRetry(is_available,
                         Outcomes(failing, << <<"reply">> >>)).attempts
          <= max_retries

\* One step of a run: a query is issued by the stage that is running, the
\* outputs of the stages before it stay as they are, and the next stage is
\* the one after it
OneStageAtATime ==
  /\ queries' # queries =>
        \E k \in DOMAIN stage_order :
           pc = stage_order[k] /\ queries' = Append(queries, stage_order[k])
  /\ pc \in {"scenes", "narration", "prompts", "gates", "done"} =>
        characters' = characters
  /\ pc \in {"narration", "prompts", "gates", "done"} => scenes' = scenes
  /\ pc \in {"prompts", "gates", "done"} => narration' = narration
  /\ \A k \in DOMAIN stage_order :
        pc = stage_order[k] =>
           pc' \in {IF k < Len(stage_order) THEN stage_order[k + 1]
                    ELSE "gates", "gates"}

\* C30: in a model-driven run the stages run strictly in the order
\* characters, scenes, narration, image prompts: the query of a stage is
\* issued while that stage runs, after the outputs of the stages before it
\* are fixed for the rest of the run; a stage issues one query at most, of
\* at most max_retries attempts, and a run four queries at most.
C30_StagesInOrder ==
  /\ [](is_available => QueriesInStageOrder)
  /\ [][is_available => OneStageAtATime]_vars

\* A model-driven run that issued the four queries
C30_Witness ==
  /\ ModelDriven
  /\ is_available
  /\ queries = stage_order
  /\ characters # <<>>
  /\ scenes # <<>>

\* C31: the final quality gate is advisory: whatever the counts and the
\* narration length of the result, _apply_quality_gates leaves the result as
\* the stages produced it and does not raise, so that process_story returns
\* that result.
C31_QualityGateAdvisory ==
  /\ [][pc = "gates" =>
          /\ results' = results
          /\ outcome' = "returned"
          /\ error' = error
          /\ pc' = "done"]_vars
  /\ [](pc = "gates" => (results # <<>> /\ outcome = "running"))
  /\ [](Returned => (results # <<>> /\ error = ""))

\* A result with no character and a narration of 3 words was returned
C31_Witness ==
  /\ Returned
  /\ {"character count", "narration words"} \subseteq warnings
  /\ Result.characters = <<>>
  /\ Result.narration.words < min_words

\* The model-driven path was left by an exception: a run with the client
\* available issues a query in each of the four stages it completes
AiPathRaised == Returned /\ is_available /\ Len(queries) < Len(stage_order)

UnknownPlaceholderLoaded ==
  \E key \in QueryKeys : "unknown_placeholder" \in framework_content[key]

\* C33: when a step of the model-driven path raises (a character without a
\* name or a scene without a title to summarize, a query template with an
\* unknown placeholder), the result returned is the whole-run fallback
\* result with processing method 'fallback': no entity the model produced
\* before the error is in it.
C33_ExceptionGivesWholeFallback ==
  /\ (Returned /\ is_available
        /\ (\/ CharacterSummaryRaises(characters)
            \/ SceneSummaryRaises(scenes)
            \/ UnknownPlaceholderLoaded)) => AiPathRaised
  /\ AiPathRaised =>
       /\ Result = ProcessWithFallback(story)
       /\ Result.processing_stats.processing_method = "fallback"
       /\ Result.characters = ExtractBasicCharacters
       /\ Result.scenes = CreateBasicScenes(ExtractBasicCharacters)
       /\ Result.narration.kind = "basic"
  /\ (Returned /\ is_available /\ ~AiPathRaised) =>
       Result.processing_stats.processing_method = "ai"

\* The model gave 3 characters with a name and 5 scenes without a title: the
\* narration stage raised and none of them is in the result
C33_Witness ==
  /\ AiPathRaised
  /\ queries = <<"characters", "scenes">>
  /\ Len(characters) = 3
  /\ ~CharacterSummaryRaises(characters)
  /\ Len(scenes) = 5
  /\ SceneSummaryRaises(scenes)
  /\ Len(Result.characters) = 2
  /\ Len(Result.scenes) = 4

\* C34: in every result process_story returns every character record has a
\* name field and every scene record has a title field, although the
\* completeness gate accepts records without them.
C34_NamesAndTitlesPresent ==
  Returned =>
     /\ \A i \in DOMAIN Result.characters : HasKey(Result.characters[i], "name")
     /\ \A i \in DOMAIN Result.scenes : HasKey(Result.scenes[i], "title")

\* The gate accepted characters without a name; the result has none of them
C34_Witness ==
  /\ Returned
  /\ characters # <<>>
  /\ ~HasKey(characters[1], "name")
  /\ ValidateCharacter(characters[1])
  /\ Result.characters # <<>>
  /\ \A i \in DOMAIN Result.characters : HasKey(Result.characters[i], "name")

\* ------------------------------------------------------------------------
\* Properties of the parsing functions applied on their own
\* ------------------------------------------------------------------------
Parsed(op) == parse.phase = "output" /\ parse.op = op

\* C11: after _parse_image_prompts, every scene that has a title has a
\* prompt whose scene reference is that title, at whichever position the
\* scene without a prompt block of its own is.
C11_EverySceneHasItsPrompt ==
  Parsed("prompts") =>
     \A i \in DOMAIN parse.scenes :
        HasKey(parse.scenes[i], "title") =>
           \E j \in DOMAIN parse.output :
              parse.output[j].scene = parse.scenes[i].title

\* C12: when k prompts are parsed for n scenes and k < n, the prompts
\* returned are n: the k parsed prompts unchanged and in order, then n - k
\* default prompts, each made for the scene at its own position and
\* referring to the title of that scene.
C12_DefaultsAppended ==
  Parsed("prompts") =>
     LET prompts == ParsedImagePrompts(parse.text)
         k == Len(prompts)
         n == Len(parse.scenes)
     IN /\ k = parse.n
        /\ parse.kind \in {"full", "no_first"} =>
             \A j \in 1..k : prompts[j].scene = Value(parse.first + j - 1)
        /\ k < n =>
             /\ Len(parse.output) = n
             /\ SubSeq(parse.output, 1, k) = prompts
             /\ \A i \in (k + 1)..n :
                  /\ parse.output[i] = DefaultPrompt(parse.scenes[i], i)
                  /\ HasKey(parse.scenes[i], "title") =>
                       parse.output[i].scene = parse.scenes[i].title

\* 3 prompts parsed for 5 scenes
C12_Witness ==
  /\ Parsed("prompts")
  /\ Len(ParsedImagePrompts(parse.text)) = 3
  /\ Len(parse.scenes) = 5
  /\ Len(parse.output) = 5
  /\ HasKey(parse.scenes[5], "title")
  /\ parse.output[5].scene = parse.scenes[5].title

\* The records of the text that pass the field-completeness gate
PassingRecords ==
  IF parse.op = "characters" THEN ParsedCharacters(parse.text)
  ELSE ParsedScenes(parse.text)

\* C20: when n records pass the field-completeness gate and n is at least
\* the minimum, _parse_characters and _parse_scenes return the first
\* min(n, max) of them, in the order of the text and unmodified.
C20_AcceptedInOrder ==
  (Parsed("characters") \/ Parsed("scenes")) =>
     LET passing == PassingRecords
         n == Len(passing)
         min == IF parse.op = "characters" THEN min_characters ELSE min_scenes
         max == IF parse.op = "characters" THEN max_characters ELSE max_scenes
         second == IF parse.op = "characters" THEN "role" ELSE "location"
     IN /\ parse.kind \in BlockKinds \ {"sparse"} =>
             /\ n = parse.n
             /\ \A i \in 1..n : passing[i][second] = Value(i)
        /\ n >= min =>
             /\ Len(parse.output) = (IF n < max THEN n ELSE max)
             /\ \A i \in DOMAIN parse.output : parse.output[i] = passing[i]

\* 5 scenes parsed with min_scenes 4 and max_scenes 8 stay 5
C20_Witness ==
  /\ Parsed("scenes")
  /\ parse.kind = "full"
  /\ Len(PassingRecords) = 5
  /\ Len(parse.output) = 5
  /\ parse.output[5].title = Value(5)

\* The lines of the text a parser was applied to
ParseLines == SplitLines(parse.text)

RequiredFields ==
  IF parse.op = "characters" THEN character_required_fields
  ELSE scene_required_fields

\* The line loop of _parse_characters / _parse_scenes before its pass for
\* line i: the records appended so far and the open record
LoopStateBefore(i) ==
  IF parse.op = "characters"
  THEN LET st == CharacterLoop(ParseLines, i - 1,
                               [i |-> 1, characters |-> <<>>,
                                current_character |-> EmptyDict])
       IN [records |-> st.characters, current |-> st.current_character]
  ELSE LET st == SceneLoop(ParseLines, i - 1,
                           [i |-> 1, scenes |-> <<>>,
                            current_scene |-> EmptyDict])
       IN [records |-> st.scenes, current |-> st.current_scene]

\* The loop after its last pass
LoopStateAtEnd == LoopStateBefore(Len(ParseLines) + 1)

BlankLine(i) == StripStr(ParseLines[i]) = <<>>

\* At most 2 required fields of the record are empty or absent
Tolerated(record) ==
  Cardinality({k \in DOMAIN RequiredFields :
                 \/ ~HasKey(record, RequiredFields[k])
                 \/ record[RequiredFields[k]] = <<>>}) <= 2

\* The records with the record closed added when it is tolerated
WithClosed(state) ==
  IF Tolerated(state.current) THEN Append(state.records, state.current)
  ELSE state.records

Serialized ==
  /\ Parsed("characters") \/ Parsed("scenes")
  /\ parse.kind = "serialized"

\* C22 as claimed: parsing the text a serializer emits for a record sequence
\* yields a record sequence equal to the original, for every record sequence.
C22_Original == Serialized => parse.output = parse.records

MinRecords == IF parse.op = "characters" THEN min_characters ELSE min_scenes
MaxRecords == IF parse.op = "characters" THEN max_characters ELSE max_scenes

\* No value of the record starts or ends with whitespace
ValuesStripped(record) ==
  \A field \in DOMAIN record : StripStr(record[field]) = record[field]

\* C22 amended: parsing the text a serializer emits for a record sequence
\* yields a record sequence equal to the original when the sequence has at
\* least the minimum and at most the maximum number of records of its entity
\* type, every record has at most 2 required fields empty or absent and no
\* value starts or ends with whitespace.
C22_Amended ==
  (/\ Serialized
   /\ MinRecords <= Len(parse.records)
   /\ Len(parse.records) <= MaxRecords
   /\ \A i \in DOMAIN parse.records :
         Tolerated(parse.records[i]) /\ ValuesStripped(parse.records[i]))
  => parse.output = parse.records

\* 5 scenes, each without a title and with an empty description, come back
\* as they were written
C22_Witness ==
  /\ Serialized
  /\ parse.op = "scenes"
  /\ Len(parse.records) = 5
  /\ ~HasKey(parse.records[5], "title")
  /\ parse.records[5].description = <<>>
  /\ parse.records[5].location = Value(5)
  /\ parse.text = Serialize(parse.records, scene_field_markers)
  /\ parse.output = parse.records

FieldMarkers ==
  IF parse.op = "characters" THEN character_field_markers
  ELSE scene_field_markers

\* Line i starts with one of the markers
MarkedLine(i) ==
  \E k \in DOMAIN FieldMarkers :
     StartsWith(StripStr(ParseLines[i]), FieldMarkers[k][2])

\* The first blank line from line i on, or the position after the text
FirstBlankFrom(i) ==
  LET blanks == {j \in i..Len(ParseLines) : BlankLine(j)} IN
  IF blanks = {} THEN Len(ParseLines) + 1
  ELSE CHOOSE j \in blanks : \A k \in blanks : j <= k

\* The first lines of the maximal runs of non-blank lines that have a
\* marker line
MarkedRuns ==
  {i \in DOMAIN ParseLines :
     /\ ~BlankLine(i)
     /\ i = 1 \/ BlankLine(i - 1)
     /\ \E j \in i..(FirstBlankFrom(i) - 1) : MarkedLine(j)}

\* The blank lines at which a record is open, and the end of the text when
\* one is: where a candidate record goes to the completeness gate
ClosingPoints ==
  {i \in DOMAIN ParseLines :
     BlankLine(i) /\ LoopStateBefore(i).current # EmptyDict}
  \cup (IF LoopStateAtEnd.current # EmptyDict
        THEN {Len(ParseLines) + 1} ELSE {})

\* C27: in character and scene parsing a blank line closes the open record,
\* which goes to the completeness gate, and leaves no record open; a blank
\* line with no record open changes nothing; the end of the text closes a
\* record still open.  A candidate record is closed once for each maximal
\* run of non-blank lines with a marker line, at the end of that run, and no
\* empty record comes out of a run of blank lines.
C27_TwoStateLineLoop ==
  (Parsed("characters") \/ Parsed("scenes")) =>
     /\ \A i \in DOMAIN ParseLines :
          BlankLine(i) =>
             LET before == LoopStateBefore(i)
                 after == LoopStateBefore(i + 1)
             IN /\ after.current = EmptyDict
                /\ before.current = EmptyDict =>
                     after.records = before.records
                /\ before.current # EmptyDict =>
                     /\ Len(after.records) <= Len(before.records) + 1
                     /\ after.records \in
                          {before.records,
                           Append(before.records, before.current)}
     /\ LET end == LoopStateAtEnd
        IN /\ end.current = EmptyDict => PassingRecords = end.records
           /\ end.current # EmptyDict =>
                PassingRecords \in
                   {end.records, Append(end.records, end.current)}
     /\ ClosingPoints = {FirstBlankFrom(i) : i \in MarkedRuns}
     /\ Cardinality(ClosingPoints) = Cardinality(MarkedRuns)
     /\ \A i \in DOMAIN PassingRecords : PassingRecords[i] # EmptyDict

\* 3 characters between runs of 3 blank lines, with blank lines before the
\* first and after the last: 3 records, closed at the first blank line after
\* each
C27_Witness ==
  /\ Parsed("characters")
  /\ parse.kind = "wide_gaps"
  /\ parse.n = 3
  /\ ~parse.sparse
  /\ Cardinality({i \in DOMAIN ParseLines : BlankLine(i)}) = 10
  /\ Cardinality(ClosingPoints) = 3
  /\ Len(PassingRecords) = 3
  /\ LoopStateAtEnd.current = EmptyDict

\* Texts whose block i carries the values Value(i)
NumberedKinds ==
  {"full", "no_first", "empty_first", "two_missing", "wide_gaps", "noted"}

\* The field every record of the texts has a value of
SecondField == IF parse.op = "characters" THEN "role" ELSE "location"

\* C28: the parsers keep the order of the text and never deduplicate: the
\* record of the block that came first in the text comes first in the
\* parsed sequence, for characters, scenes and image prompts, and n blocks
\* with identical content yield n records.
C28_OrderKeptNoDeduplication ==
  /\ (Parsed("characters") \/ Parsed("scenes")) =>
       LET passing == PassingRecords IN
       /\ parse.kind \in NumberedKinds =>
            /\ Len(passing) = parse.n
            /\ \A i \in 1..parse.n : passing[i][SecondField] = Value(i)
       /\ parse.kind = "same" =>
            /\ Len(passing) = parse.n
            /\ \A i \in 1..parse.n : passing[i] = passing[1]
       /\ (MinRecords <= Len(passing) /\ Len(passing) <= MaxRecords) =>
            parse.output = passing
  /\ Parsed("prompts") =>
       LET prompts == ParsedImagePrompts(parse.text) IN
       /\ Len(prompts) = parse.n
       /\ parse.kind \in {"full", "no_first"} =>
            \A j \in 1..parse.n :
               prompts[j].scene = Value(parse.first + j - 1)
       /\ parse.kind = "loose" =>
            \A j \in 1..parse.n :
               prompts[j].scene = <<"Act", WS>> \o Value(j)
       /\ parse.kind = "same" =>
            \A j \in 1..parse.n : prompts[j] = prompts[1]
       /\ SubSeq(parse.output, 1, parse.n) = prompts

\* 3 character blocks with identical content give 3 equal records
C28_Witness ==
  /\ Parsed("characters")
  /\ parse.kind = "same"
  /\ parse.n = 3
  /\ ~parse.sparse
  /\ Len(PassingRecords) = 3
  /\ PassingRecords[1] = PassingRecords[2]
  /\ PassingRecords[2] = PassingRecords[3]
  /\ parse.output = PassingRecords

\* The loop of _parse_image_prompts before its pass for line i
PromptStateBefore(i) ==
  PromptLoop(ParseLines, i - 1,
             [i |-> 1, prompts |-> <<>>, has_prompt |-> FALSE,
              current_prompt |-> [scene |-> <<>>, prompt |-> <<>>]])

\* C29: a non-blank line that starts with none of the markers leaves the
\* records parsed so far and the open record as they are in character and
\* scene parsing; in image-prompt parsing the line is appended to the
\* prompt text of the open prompt, and nothing else of the parser state
\* changes.
C29_UnmarkedLines ==
  /\ (Parsed("characters") \/ Parsed("scenes")) =>
       \A i \in DOMAIN ParseLines :
          (~BlankLine(i) /\ ~MarkedLine(i)) =>
             LoopStateBefore(i + 1) = LoopStateBefore(i)
  /\ Parsed("prompts") =>
       \A i \in DOMAIN ParseLines :
          LET line == StripStr(ParseLines[i])
              before == PromptStateBefore(i)
              after == PromptStateBefore(i + 1)
          IN (line # <<>> /\ ~StartsWith(line, PromptMarker)
                /\ before.has_prompt) =>
                /\ after.current_prompt.prompt =
                     before.current_prompt.prompt \o line \o <<WS>>
                /\ after.current_prompt.scene = before.current_prompt.scene
                /\ after.prompts = before.prompts
                /\ after.has_prompt

\* A line without a marker right after the first line of the second scene
\* block, with the first scene parsed and the second open
C29_Witness ==
  /\ Parsed("scenes")
  /\ parse.kind = "noted"
  /\ parse.n = 4
  /\ \E i \in DOMAIN ParseLines :
        /\ ParseLines[i] = UnmarkedLine(2)
        /\ ~MarkedLine(i)
        /\ Len(LoopStateBefore(i).records) = 1
        /\ DOMAIN LoopStateBefore(i).current = {"title"}
        /\ LoopStateBefore(i + 1) = LoopStateBefore(i)
  /\ Len(parse.output) = 4

\* The lines of the text that start with 'Prompt for'
PromptMarkerLines ==
  {i \in DOMAIN ParseLines : StartsWith(StripStr(ParseLines[i]), PromptMarker)}

Advanced(st) == [st EXCEPT !.i = @ + 1]

\* C36: in image-prompt parsing only a line that starts with 'Prompt for'
\* opens or closes a record: there are as many parsed prompts as such lines,
\* a blank line leaves the open prompt open, the non-blank lines before the
\* first such line are discarded, and the scene reference of a prompt is
\* its marker line without 'Prompt for' and without any colon.
C36_OnlyMarkerOpensOrCloses ==
  Parsed("prompts") =>
     LET prompts == ParsedImagePrompts(parse.text) IN
     /\ Len(prompts) = Cardinality(PromptMarkerLines)
     /\ \A i \in DOMAIN ParseLines :
          LET before == PromptStateBefore(i)
              after == PromptStateBefore(i + 1)
          IN /\ BlankLine(i) => after = Advanced(before)
             /\ (i \notin PromptMarkerLines /\ ~before.has_prompt) =>
                   after = Advanced(before)
             /\ i \notin PromptMarkerLines =>
                   /\ after.prompts = before.prompts
                   /\ after.has_prompt = before.has_prompt
                   /\ after.current_prompt.scene = before.current_prompt.scene
             /\ i \in PromptMarkerLines =>
                   /\ after.has_prompt
                   /\ after.current_prompt.prompt = <<>>
                   /\ \A t \in DOMAIN after.current_prompt.scene :
                         after.current_prompt.scene[t] \notin {PromptMarker, ":"}
                   /\ after.prompts =
                        IF before.has_prompt
                        THEN Append(before.prompts, before.current_prompt)
                        ELSE before.prompts
     /\ parse.kind = "loose" =>
          \A j \in 1..parse.n :
             /\ prompts[j].scene = <<"Act", WS>> \o Value(j)
             /\ prompts[j].prompt =
                  <<"Children's storybook illustration", WS,
                    "p" \o ToString(j), WS, "soft", WS, "light", WS>>

\* 4 prompt blocks with blank lines inside, after two lines of introduction
C36_Witness ==
  /\ Parsed("prompts")
  /\ parse.kind = "loose"
  /\ parse.n = 4
  /\ Cardinality(PromptMarkerLines) = 4
  /\ ~BlankLine(1) /\ 1 \notin PromptMarkerLines
  /\ Cardinality({i \in DOMAIN ParseLines : BlankLine(i)}) > 4
  /\ Len(ParsedImagePrompts(parse.text)) = 4
  /\ ParsedImagePrompts(parse.text)[4].scene = <<"Act", WS, "v4">>

\* The field of the first marker that line i starts with
MarkedField(i) ==
  LET matching == {k \in DOMAIN FieldMarkers :
                     StartsWith(StripStr(ParseLines[i]), FieldMarkers[k][2])}
  IN FieldMarkers[CHOOSE k \in matching : \A l \in matching : k <= l][1]

\* C37: in character and scene parsing a marker line never closes or opens
\* a record: it sets its field in the open record, over the value the field
\* had, and the records parsed so far stay; so entities written with no
\* blank line between them are parsed as one record that holds the later
\* values.
C37_MarkerLineOverwrites ==
  (Parsed("characters") \/ Parsed("scenes")) =>
     /\ \A i \in DOMAIN ParseLines :
          MarkedLine(i) =>
             LET before == LoopStateBefore(i)
                 after == LoopStateBefore(i + 1)
                 field == MarkedField(i)
             IN /\ after.records = before.records
                /\ DOMAIN after.current = DOMAIN before.current \cup {field}
                /\ after.current[field] =
                     StripStr(Tail(StripStr(ParseLines[i])))
                /\ \A other \in DOMAIN before.current :
                      other # field =>
                         after.current[other] = before.current[other]
     /\ (parse.kind = "glued" /\ parse.n >= 1) =>
          /\ Len(PassingRecords) = 1
          /\ PassingRecords[1][FieldMarkers[Len(FieldMarkers)][1]]
               = Value(parse.n)
          /\ PassingRecords[1][FieldMarkers[1][1]]
               = Value(IF parse.sparse THEN parse.n + 1 ELSE parse.n)
          /\ ~parse.sparse =>
               PassingRecords[1] = ShapedRecord(FieldMarkers, "full", parse.n)

\* 3 characters written with no blank line between them: one record, with
\* the values of the third
C37_Witness ==
  /\ Parsed("characters")
  /\ parse.kind = "glued"
  /\ parse.n = 3
  /\ ~parse.sparse
  /\ Len(ParseLines) = 21
  /\ Len(PassingRecords) = 1
  /\ PassingRecords[1].name = Value(3)
  /\ PassingRecords[1].description = Value(3)

\* _retry_api_call has ended
DriveDone == drive.phase = "done"

\* What api_call did in attempt k of the call, counted from 1
Attempt(k) == drive.api_outcomes[k]

\* C32: _retry_api_call makes another attempt only after an HttpError with
\* status 500, 502, 503 or 504, waits retry_delay * 2^attempt seconds before
\* it, and makes at most max_retries attempts; any other error, or such an
\* error in the last attempt, is raised with no further attempt.
C32_RetriesOnlyServerErrors ==
  DriveDone =>
     LET made == drive.call.attempt + 1
         last == Attempt(made)
     IN /\ made \in 1..max_retries
        /\ \A k \in 1..(made - 1) :
              /\ Attempt(k).kind = "http"
              /\ Attempt(k).status \in {500, 502, 503, 504}
        /\ drive.call.slept = [k \in 1..(made - 1) |-> retry_delay * 2 ^ (k - 1)]
        /\ drive.call.result \in {"returned", "raised"}
        /\ drive.call.result = "returned" <=> last.kind = "ok"
        /\ drive.call.result = "raised" =>
              /\ drive.call.error = last
              /\ \/ last.kind = "other"
                 \/ last.status \notin {500, 502, 503, 504}
                 \/ made = max_retries
        /\ (last.kind = "http" /\ last.status \in {500, 502, 503, 504}) =>
              made = max_retries

\* 503, 500 and then 504: three attempts, waits of 2 and 4 seconds, and the
\* 504 error is raised
C32_Witness ==
  /\ DriveDone
  /\ Attempt(1).status = 503
  /\ Attempt(2).status = 500
  /\ Attempt(3).status = 504
  /\ drive.call.attempt = 2
  /\ drive.call.slept = <<2, 4>>
  /\ drive.call.result = "raised"
  /\ drive.call.error.status = 504

\* execute_story_pipeline has ended: result holds the record returned, and
\* is empty when an exception left the call
PipelineDone == pipeline.step = "done"

\* The messages of the exceptions of read_story_input
ReadErrors ==
  {"Story input file not found: story_input.txt", "download failed",
   "Story input is too short or empty (minimum 100 characters required)"}

\* Reading the story failed: process_story was never called
ReadFailed == PipelineDone /\ pc = "not_called"

\* process_story raised
ProcessingFailed == PipelineDone /\ outcome = "raised"

\* C38: execute_story_pipeline creates the output folder and writes output
\* files only after process_story has returned a result; when reading the
\* story or processing it fails, no folder is created, no file is written
\* and the call ends with a record returned, with success false and the
\* text of the error.
C38_OutputOnlyAfterProcessing ==
  /\ [](\/ pipeline.folder_created
        \/ pipeline.files_written # {}
        \/ pipeline.step \in {"generate", "write"}
        => pc = "done" /\ outcome = "returned" /\ results # <<>>)
  /\ []((ReadFailed \/ ProcessingFailed) =>
          /\ ~pipeline.folder_created
          /\ pipeline.files_written = {}
          /\ Len(pipeline.result) = 1
          /\ pipeline.result[1].success = FALSE
          /\ ReadFailed => pipeline.result[1].error \in ReadErrors
          /\ ProcessingFailed => pipeline.result[1].error = error)
  /\ [][(pipeline.step = "read" /\ pipeline'.step # "process") =>
          (ReadFailed' /\ pipeline'.result # <<>>)]_vars
  /\ [][(pipeline.step = "process" /\ pc = "done" /\ outcome = "raised") =>
          (ProcessingFailed' /\ pipeline'.result # <<>>)]_vars

\* process_story raised 'Story too long' and the pipeline returned the
\* failure record with that text
C38_Witness ==
  /\ ProcessingFailed
  /\ error = "Story too long"
  /\ pipeline.result = <<[success |-> FALSE, error |-> "Story too long"]>>
  /\ ~pipeline.folder_created
  /\ pipeline.files_written = {}

====
